---- MODULE Spec2Model ----
(***************************************************************************)
(* Request pipeline of boilerplate-go: the redis-backed rate limiter       *)
(* (middleware rateLimit / checkRateLimit and its lua script), the chain   *)
(* the server installs (setupRateLimitMiddlewares, setupCORS,              *)
(* setupAPIHandler) and the JWT authentication gate (JWTAuth,              *)
(* ValidateToken).                                                         *)
(*                                                                         *)
(* One request is served by one goroutine; the goroutines share only the   *)
(* redis store and the clock.  A step of the model is therefore one        *)
(* middleware of one request: the redis EVAL of a limiter stage is atomic  *)
(* in the store, and everything else a middleware does is local to its     *)
(* request.                                                                *)
(***************************************************************************)
EXTENDS Integers, Sequences, FiniteSets, TLC

VARIABLES
    config,     \* server.Config.RateLimit: scope -> [enabled, requests, window]
    chain,      \* the middleware chain built at start-up, outermost first
    store,      \* redis: key -> [count, ttl], defined on the existing keys
    now,        \* the clock, in seconds
    req,        \* the requests in flight, one per slot
    done,       \* the request answered by the last step, with its response
    arrivals,   \* number of requests accepted so far
    win,        \* history: per key, the calls of the key's current window
    invoked,    \* a call of a function of the packages on its own: name and arguments
    returned    \* what that call returned

vars == <<config, chain, store, now, req, done, arrivals, win, invoked, returned>>

-----------------------------------------------------------------------------
(* Bounds of the model *)

MaxInFlight == 2
MaxArrivals == 3
MaxServed == 2
MaxTime == 2
MaxRequests == 2
MaxWindow == 2
MaxReadTimeout == 1

MaxRefreshes == 3
MaxBuckets == 3

Slots == 1..MaxInFlight

-----------------------------------------------------------------------------
(* Small helpers *)

Min(a, b) == IF a < b THEN a ELSE b

Max(a, b) == IF a > b THEN a ELSE b

\* strconv.Itoa / strconv.FormatInt(_, 10): decimal text of an integer
RECURSIVE Digits(_)
Digits(n) ==
    IF n < 10 THEN SubSeq("0123456789", n + 1, n + 1)
    ELSE Digits(n \div 10) \o SubSeq("0123456789", (n % 10) + 1, (n % 10) + 1)

Itoa(n) == IF n < 0 THEN "-" \o Digits(0 - n) ELSE Digits(n)

\* strings.HasPrefix
HasPrefix(s, p) == Len(s) >= Len(p) /\ SubSeq(s, 1, Len(p)) = p

\* strings.TrimPrefix
TrimPrefix(s, p) == IF HasPrefix(s, p) THEN SubSeq(s, Len(p) + 1, Len(s)) ELSE s

\* http.Header.Get: "" when the header is not set
HeaderGet(h, name) == IF name \in DOMAIN h THEN h[name] ELSE ""

\* http.Header.Set
HeaderSet(h, name, value) == [n \in (DOMAIN h) \cup {name} |-> IF n = name THEN value ELSE h[n]]

-----------------------------------------------------------------------------
(* Rate limit types and keys *)

RateLimitTypeGlobal == "global"

RateLimitTypeIP == "ip"

RateLimitTypeEndpoint == "endpoint"

Scopes == {RateLimitTypeGlobal, RateLimitTypeIP, RateLimitTypeEndpoint}

\* Faulty variant: X-Real-IP is looked at first
getClientIPRealIPFirst(request) ==
    IF request.xri # "" THEN request.xri
    ELSE IF request.xff # "" THEN request.xff
    ELSE request.remoteAddr

\* Faulty variant: the fallback is the host of RemoteAddr, without the port
getClientIPHostOnly(request) ==
    IF request.xff # "" THEN request.xff
    ELSE IF request.xri # "" THEN request.xri
    ELSE SubSeq(request.remoteAddr, 1,
                (CHOOSE i \in 1..Len(request.remoteAddr) :
                    /\ SubSeq(request.remoteAddr, i, i) = ":"
                    /\ \A j \in 1..(i - 1) : SubSeq(request.remoteAddr, j, j) # ":") - 1)

\* getClientIP: X-Forwarded-For verbatim, else X-Real-IP, else RemoteAddr
getClientIP(request) ==
    IF request.xff # "" THEN request.xff
    ELSE IF request.xri # "" THEN request.xri
    ELSE request.remoteAddr

\* Faulty variant: one counter per scope, whoever the client and whatever the
\* endpoint
generateRateLimitKeyShared(limitType, request) ==
    IF limitType \in Scopes
    THEN [err |-> "nil", key |-> "rate_limit:" \o limitType]
    ELSE [err |-> "ErrUnknownRateLimitType", key |-> ""]

\* Faulty variant: the endpoint key leaves the method out
generateRateLimitKeyNoMethod(limitType, request) ==
    CASE limitType = RateLimitTypeGlobal ->
            [err |-> "nil", key |-> "rate_limit:global"]
      [] limitType = RateLimitTypeIP ->
            [err |-> "nil", key |-> "rate_limit:ip:" \o getClientIP(request)]
      [] limitType = RateLimitTypeEndpoint ->
            [err |-> "nil",
             key |-> "rate_limit:endpoint:" \o getClientIP(request) \o ":" \o request.path]
      [] OTHER ->
            [err |-> "ErrUnknownRateLimitType", key |-> ""]

\* generateRateLimitKey: [err, key]
generateRateLimitKey(limitType, request) ==
    CASE limitType = RateLimitTypeGlobal ->
            [err |-> "nil", key |-> "rate_limit:global"]
      [] limitType = RateLimitTypeIP ->
            [err |-> "nil", key |-> "rate_limit:ip:" \o getClientIP(request)]
      [] limitType = RateLimitTypeEndpoint ->
            [err |-> "nil",
             key |-> "rate_limit:endpoint:" \o getClientIP(request) \o ":"
                        \o (request.method \o ":" \o request.path)]
      [] OTHER ->
            [err |-> "ErrUnknownRateLimitType", key |-> ""]

-----------------------------------------------------------------------------
(* The redis store and the lua script of checkRateLimit *)

\* redis GET: FALSE (absent) is modelled by the key not being in the store
KeyExists(st, key) == key \in DOMAIN st

Int64(n) == [type |-> "int64", v |-> n]

\* Faulty variant: the count is read and compared, and not incremented
LuaScriptNoIncr(st, key, limit, window) ==
    IF ~KeyExists(st, key)
    THEN [store  |-> [k \in (DOMAIN st) \cup {key} |->
                        IF k = key THEN [count |-> 1, ttl |-> window] ELSE st[k]],
          values |-> <<Int64(1), Int64(window)>>]
    ELSE [store  |-> st,
          values |-> <<Int64(st[key].count), Int64(st[key].ttl)>>]

\* Faulty variant: a new counter starts at 0
LuaScriptFromZero(st, key, limit, window) ==
    IF ~KeyExists(st, key)
    THEN [store  |-> [k \in (DOMAIN st) \cup {key} |->
                        IF k = key THEN [count |-> 0, ttl |-> window] ELSE st[k]],
          values |-> <<Int64(0), Int64(window)>>]
    ELSE [store  |-> [st EXCEPT ![key].count = @ + 1],
          values |-> <<Int64(st[key].count + 1), Int64(st[key].ttl)>>]

\* Faulty variant: a sliding window, every call starts the TTL anew
LuaScriptSliding(st, key, limit, window) ==
    IF ~KeyExists(st, key)
    THEN [store  |-> [k \in (DOMAIN st) \cup {key} |->
                        IF k = key THEN [count |-> 1, ttl |-> window] ELSE st[k]],
          values |-> <<Int64(1), Int64(window)>>]
    ELSE [store  |-> [st EXCEPT ![key].count = @ + 1, ![key].ttl = window],
          values |-> <<Int64(st[key].count + 1), Int64(window)>>]

\* Faulty variant: SET without EX, the new counter never expires (TTL -1)
LuaScriptNoExpire(st, key, limit, window) ==
    IF ~KeyExists(st, key)
    THEN [store  |-> [k \in (DOMAIN st) \cup {key} |->
                        IF k = key THEN [count |-> 1, ttl |-> -1] ELSE st[k]],
          values |-> <<Int64(1), Int64(window)>>]
    ELSE [store  |-> [st EXCEPT ![key].count = @ + 1],
          values |-> <<Int64(st[key].count + 1), Int64(st[key].ttl)>>]

\* Faulty variant: the count that is returned is the one read before INCR
LuaScriptStaleCount(st, key, limit, window) ==
    IF ~KeyExists(st, key)
    THEN [store  |-> [k \in (DOMAIN st) \cup {key} |->
                        IF k = key THEN [count |-> 1, ttl |-> window] ELSE st[k]],
          values |-> <<Int64(1), Int64(window)>>]
    ELSE [store  |-> [st EXCEPT ![key].count = @ + 1],
          values |-> <<Int64(st[key].count), Int64(st[key].ttl)>>]

\* The lua script, run atomically by redis: [store, values]
LuaScript(st, key, limit, window) ==
    IF ~KeyExists(st, key)
    THEN \* SET key 1 EX window; return {1, window}
         [store  |-> [k \in (DOMAIN st) \cup {key} |->
                        IF k = key THEN [count |-> 1, ttl |-> window] ELSE st[k]],
          values |-> <<Int64(1), Int64(window)>>]
    ELSE \* INCR key; TTL key; return {count, ttl}
         [store  |-> [st EXCEPT ![key].count = @ + 1],
          values |-> <<Int64(st[key].count + 1), Int64(st[key].ttl)>>]

\* What can go wrong between the client and redis
Faults == {"none", "refused", "timeout", "notlist", "badlen", "notint"}

\* redis reachable or not
ConnectionFaults == {"none", "refused"}

\* What the client gets when the script ran as `run`: [store, err, result]
\*   refused: the command never reaches redis
\*   timeout: the script runs and the reply does not arrive (ctx done)
\*   notlist, badlen, notint: a reply that is not the script's two integers
Reply(st, run, fault) ==
    CASE fault = "none" ->
           [store |-> run.store, err |-> "nil",
            result |-> [type |-> "array", values |-> run.values]]
      [] fault = "refused" ->
           [store |-> st, err |-> "connection refused",
            result |-> [type |-> "nil", values |-> <<>>]]
      [] fault = "timeout" ->
           [store |-> run.store, err |-> "context deadline exceeded",
            result |-> [type |-> "nil", values |-> <<>>]]
      [] fault = "notlist" ->
           [store |-> run.store, err |-> "nil",
            result |-> [type |-> "string", values |-> <<>>]]
      [] fault = "badlen" ->
           [store |-> run.store, err |-> "nil",
            result |-> [type |-> "array", values |-> <<run.values[1]>>]]
      [] fault = "notint" ->
           [store |-> run.store, err |-> "nil",
            result |-> [type |-> "array",
                        values |-> <<[type |-> "string", v |-> run.values[1].v],
                                     run.values[2]>>]]

\* redis.Eval(ctx, script, []string{key}, limit, window).Result()
Eval(st, key, limit, window, fault) ==
    Reply(st, LuaScript(st, key, limit, window), fault)

\* The zero result checkRateLimit returns with an error
RateLimitError(st, err) ==
    [store |-> st, err |-> err, allowed |-> FALSE, current |-> 0,
     remaining |-> 0, resetTime |-> 0]

\* Faulty variant: the call that reaches the limit is denied already
DecisionStrict(st, current, ttl, limit, clock) ==
    [store     |-> st,
     err       |-> "nil",
     allowed   |-> current < limit,
     current   |-> current,
     remaining |-> IF limit - current < 0 THEN 0 ELSE limit - current,
     resetTime |-> clock + ttl]

\* checkRateLimit on the two integers of the reply: current count and TTL
Decision(st, current, ttl, limit, clock) ==
    [store     |-> st,
     err       |-> "nil",
     allowed   |-> current <= limit,
     current   |-> current,
     remaining |-> IF limit - current < 0 THEN 0 ELSE limit - current,
     resetTime |-> clock + ttl]

\* checkRateLimit after redis.Eval returned ev
Checked(ev, limit, clock) ==
    IF ev.err # "nil"
    THEN RateLimitError(ev.store, "ErrFailedToExecuteScript")
    ELSE IF ev.result.type # "array" \/ Len(ev.result.values) # 2
    THEN RateLimitError(ev.store, "ErrInvalidScriptResult")
    ELSE IF ev.result.values[1].type # "int64" \/ ev.result.values[2].type # "int64"
    THEN RateLimitError(ev.store, "ErrFailedToParseResult")
    ELSE Decision(ev.store, ev.result.values[1].v, ev.result.values[2].v, limit, clock)

\* checkRateLimit: [store, err, allowed, current, remaining, resetTime]
checkRateLimit(st, key, limit, window, clock, fault) ==
    Checked(Eval(st, key, limit, window, fault), limit, clock)

-----------------------------------------------------------------------------
(* JWT generation and validation *)

\* jwt.Config after SetDefault; the TTLs of the model are a few seconds.  The
\* clock counts whole seconds, the precision of jwt.NumericDate.
Issuer == "boilerplate"

Audience == "boilerplate_audience"

SecretKey == "boilerplate_secret_key"

AccessTokenTTL == 2

RefreshTokenTTL == 3

\* What encoding/json makes of a Go string: every byte that is not valid
\* UTF-8 becomes U+FFFD.  Strings are written as Go writes them: \xff is the
\* byte 0xFF, \ufffd the replacement character.
RECURSIVE ToValidUTF8(_)
ToValidUTF8(s) ==
    IF s = "" THEN ""
    ELSE IF HasPrefix(s, "\\xff") THEN "\\ufffd" \o ToValidUTF8(SubSeq(s, 5, Len(s)))
    ELSE SubSeq(s, 1, 1) \o ToValidUTF8(SubSeq(s, 2, Len(s)))

\* A JSON string
Quote(s) == "\"" \o ToValidUTF8(s) \o "\""

\* json.Marshal of Claims: the custom fields, then the registered claims
\* (iss and sub are left out when empty)
Marshal(c) ==
    "{\"user_id\":" \o Quote(c.userID) \o ",\"email\":" \o Quote(c.email)
      \o ",\"role\":" \o Quote(c.role)
      \o (IF c.iss # "" THEN ",\"iss\":" \o Quote(c.iss) ELSE "")
      \o (IF c.sub # "" THEN ",\"sub\":" \o Quote(c.sub) ELSE "")
      \o ",\"aud\":[" \o Quote(c.aud) \o "]"
      \o ",\"exp\":" \o Itoa(c.exp) \o ",\"nbf\":" \o Itoa(c.nbf)
      \o ",\"iat\":" \o Itoa(c.iat) \o "}"

\* Token.SigningString: header and claims.  The segments are written as they
\* are; base64url, which is one-to-one, is left out.
SigningString(alg, c) == "{\"alg\":\"" \o alg \o "\",\"typ\":\"JWT\"}" \o "." \o Marshal(c)

\* The MAC of a signing string under a key: a text that only this key and
\* this signing string give
Sign(text, key) == "hmac(" \o key \o "," \o text \o ")"

\* Token.SignedString
SignedString(alg, c, key) == SigningString(alg, c) \o "." \o Sign(SigningString(alg, c), key)

\* The callers of the model: their userID, email and role.  The last userID
\* is not valid UTF-8.
Users ==
    { [userID |-> "user123", email |-> "test@example.com", role |-> "user"],
      [userID |-> "user456", email |-> "old@example.com", role |-> "admin"],
      [userID |-> "", email |-> "", role |-> ""],
      [userID |-> "user\\xff", email |-> "test@example.com", role |-> "user"] }

\* The least position of a set of positions, 0 when there is none
Least(positions) ==
    IF positions = {} THEN 0
    ELSE CHOOSE i \in positions : \A j \in positions : i <= j

\* strings.Index from position i on: 0 when pat does not occur
IndexFrom(s, pat, i) ==
    Least({j \in i..(Len(s) - Len(pat) + 1) : SubSeq(s, j, j + Len(pat) - 1) = pat})

\* The text from position i up to the next `close`
Cut(s, i, close) ==
    IF IndexFrom(s, close, i) = 0 THEN "" ELSE SubSeq(s, i, IndexFrom(s, close, i) - 1)

\* The text between the first `open` and the next `close`; "" without `open`
Between(s, open, close) ==
    IF IndexFrom(s, open, 1) = 0 THEN ""
    ELSE Cut(s, IndexFrom(s, open, 1) + Len(open), close)

\* strconv.Atoi on a string of digits
RECURSIVE Atoi(_)
Atoi(s) ==
    IF s = "" THEN 0
    ELSE 10 * Atoi(SubSeq(s, 1, Len(s) - 1))
           + (CHOOSE d \in 0..9 : SubSeq("0123456789", d + 1, d + 1) = SubSeq(s, Len(s), Len(s)))

\* json.Unmarshal of the header and of the claims, with the signed text and
\* the signature.  h and p are the ends of the first two segments, found by
\* the brace that closes them.
Unmarshal(t, h, p) ==
    [alg |-> Between(SubSeq(t, 1, h), "\"alg\":\"", "\""),
     text |-> SubSeq(t, 1, p),
     signature |-> SubSeq(t, p + 2, Len(t)),
     userID |-> Between(SubSeq(t, h + 2, p), "\"user_id\":\"", "\""),
     email |-> Between(SubSeq(t, h + 2, p), "\"email\":\"", "\""),
     role |-> Between(SubSeq(t, h + 2, p), "\"role\":\"", "\""),
     iss |-> Between(SubSeq(t, h + 2, p), "\"iss\":\"", "\""),
     sub |-> Between(SubSeq(t, h + 2, p), "\"sub\":\"", "\""),
     aud |-> Between(SubSeq(t, h + 2, p), "\"aud\":[\"", "\"]"),
     exp |-> Atoi(Between(SubSeq(t, h + 2, p), "\"exp\":", ",")),
     nbf |-> Atoi(Between(SubSeq(t, h + 2, p), "\"nbf\":", ",")),
     iat |-> Atoi(Between(SubSeq(t, h + 2, p), "\"iat\":", "}"))]

\* A token string has three segments
WellFormed(t) ==
    /\ IndexFrom(t, "}.", 1) # 0
    /\ IndexFrom(t, "}.", IndexFrom(t, "}.", 1) + 2) # 0

\* Parser.ParseUnverified on a well-formed token string
Parsed(t) ==
    Unmarshal(t, IndexFrom(t, "}.", 1), IndexFrom(t, "}.", IndexFrom(t, "}.", 1) + 2))

\* Token strings that are not written out in the model, and what they
\* decode to
TokenTable ==
    [t \in {"tok.user123", "tok.stale", "tok.forged", "tok.none"} |->
        CASE t = "tok.user123" ->
               [alg |-> "HS256", text |-> t, signature |-> Sign(t, SecretKey),
                userID |-> "user123", email |-> "test@example.com", role |-> "user",
                iss |-> Issuer, sub |-> "user123", aud |-> Audience,
                exp |-> MaxTime + 1, nbf |-> 0, iat |-> 0]
          [] t = "tok.stale" ->
               [alg |-> "HS256", text |-> t, signature |-> Sign(t, SecretKey),
                userID |-> "user456", email |-> "old@example.com", role |-> "admin",
                iss |-> Issuer, sub |-> "user456", aud |-> Audience,
                exp |-> 1, nbf |-> 0, iat |-> 0]
          [] t = "tok.forged" ->
               [alg |-> "HS256", text |-> t, signature |-> Sign(t, "different-secret-key"),
                userID |-> "user123", email |-> "test@example.com", role |-> "admin",
                iss |-> Issuer, sub |-> "user123", aud |-> Audience,
                exp |-> MaxTime + 1, nbf |-> 0, iat |-> 0]
          [] t = "tok.none" ->
               [alg |-> "none", text |-> t, signature |-> "",
                userID |-> "user123", email |-> "test@example.com", role |-> "admin",
                iss |-> Issuer, sub |-> "user123", aud |-> Audience,
                exp |-> MaxTime + 1, nbf |-> 0, iat |-> 0]]

\* The nil *Claims
NoClaims == [userID |-> "", email |-> "", role |-> ""]

\* The Claims a decoded token carries
ClaimsOf(token) ==
    [userID |-> token.userID, email |-> token.email, role |-> token.role,
     iss |-> token.iss, sub |-> token.sub, aud |-> token.aud,
     exp |-> token.exp, nbf |-> token.nbf, iat |-> token.iat]

\* Faulty variant: the registered claims are checked before the signature
VerifiedClaimsFirst(token, clock) ==
    IF token.alg \notin {"HS256", "HS384", "HS512"}
    THEN [err |-> "ErrInvalidToken", claims |-> NoClaims]
    ELSE IF ~(clock < token.exp)
    THEN [err |-> "ErrExpiredToken", claims |-> NoClaims]
    ELSE IF token.signature # Sign(token.text, SecretKey)
    THEN [err |-> "ErrInvalidToken", claims |-> NoClaims]
    ELSE IF clock < token.nbf
    THEN [err |-> "ErrInvalidToken", claims |-> NoClaims]
    ELSE [err |-> "nil", claims |-> ClaimsOf(token)]

\* Faulty variant: the issuer of the token has to be the configured one
VerifiedIssuer(token, clock) ==
    IF token.alg \notin {"HS256", "HS384", "HS512"}
    THEN [err |-> "ErrInvalidToken", claims |-> NoClaims]
    ELSE IF token.signature # Sign(token.text, SecretKey)
    THEN [err |-> "ErrInvalidToken", claims |-> NoClaims]
    ELSE IF ~(clock < token.exp)
    THEN [err |-> "ErrExpiredToken", claims |-> NoClaims]
    ELSE IF clock < token.nbf \/ token.iss # Issuer
    THEN [err |-> "ErrInvalidToken", claims |-> NoClaims]
    ELSE [err |-> "nil", claims |-> ClaimsOf(token)]

\* jwt.ParseWithClaims on a well-formed token: the key function accepts HMAC
\* methods only, then the signature, then the registered claims (exp, nbf)
\* against the clock
Verified(token, clock) ==
    IF token.alg \notin {"HS256", "HS384", "HS512"}
    THEN [err |-> "ErrInvalidToken", claims |-> NoClaims]
    ELSE IF token.signature # Sign(token.text, SecretKey)
    THEN [err |-> "ErrInvalidToken", claims |-> NoClaims]
    ELSE IF ~(clock < token.exp)
    THEN [err |-> "ErrExpiredToken", claims |-> NoClaims]
    ELSE IF clock < token.nbf
    THEN [err |-> "ErrInvalidToken", claims |-> NoClaims]
    ELSE [err |-> "nil", claims |-> ClaimsOf(token)]

\* JWT.ValidateToken: [err, claims]
ValidateToken(tokenString, clock) ==
    IF tokenString \in DOMAIN TokenTable
    THEN Verified(TokenTable[tokenString], clock)
    ELSE IF WellFormed(tokenString)
    THEN Verified(Parsed(tokenString), clock)
    ELSE [err |-> "ErrInvalidToken", claims |-> NoClaims]

\* Faulty variant: the subject is the email
generateTokenSubjectEmail(userID, email, role, ttl, clock) ==
    SignedString("HS256",
        [userID |-> userID, email |-> email, role |-> role,
         iss |-> Issuer, sub |-> email, aud |-> Audience,
         exp |-> clock + ttl, nbf |-> clock, iat |-> clock],
        SecretKey)

\* The claims generateToken sets at clock
NewClaims(userID, email, role, ttl, clock) ==
    [userID |-> userID, email |-> email, role |-> role,
     iss |-> Issuer, sub |-> userID, aud |-> Audience,
     exp |-> clock + ttl, nbf |-> clock, iat |-> clock]

\* JWT.generateToken at clock: the token string (signing with a []byte key
\* does not fail)
generateToken(userID, email, role, ttl, clock) ==
    SignedString("HS256", NewClaims(userID, email, role, ttl, clock), SecretKey)

\* JWT.GenerateAccessToken
GenerateAccessToken(userID, email, role, clock) ==
    [err |-> "nil", token |-> generateToken(userID, email, role, AccessTokenTTL, clock)]

\* JWT.GenerateRefreshToken
GenerateRefreshToken(userID, email, role, clock) ==
    [err |-> "nil", token |-> generateToken(userID, email, role, RefreshTokenTTL, clock)]

\* Faulty variant: the claims are read without validating the token
RefreshAccessTokenUnverified(refreshToken, clock) ==
    IF refreshToken \in DOMAIN TokenTable
    THEN GenerateAccessToken(TokenTable[refreshToken].userID, TokenTable[refreshToken].email,
                             TokenTable[refreshToken].role, clock)
    ELSE IF WellFormed(refreshToken)
    THEN GenerateAccessToken(Parsed(refreshToken).userID, Parsed(refreshToken).email,
                             Parsed(refreshToken).role, clock)
    ELSE [err |-> "ErrInvalidToken", token |-> ""]

\* Faulty variant: only a token with the lifetime of a refresh token is taken
RefreshAccessTokenRefreshOnly(refreshToken, clock) ==
    IF ValidateToken(refreshToken, clock).err # "nil"
    THEN [err |-> ValidateToken(refreshToken, clock).err, token |-> ""]
    ELSE IF ValidateToken(refreshToken, clock).claims.exp
              - ValidateToken(refreshToken, clock).claims.iat # RefreshTokenTTL
    THEN [err |-> "ErrInvalidToken", token |-> ""]
    ELSE GenerateAccessToken(ValidateToken(refreshToken, clock).claims.userID,
                             ValidateToken(refreshToken, clock).claims.email,
                             ValidateToken(refreshToken, clock).claims.role, clock)

\* JWT.RefreshAccessToken: [err, token]
RefreshAccessToken(refreshToken, clock) ==
    IF ValidateToken(refreshToken, clock).err # "nil"
    THEN [err |-> ValidateToken(refreshToken, clock).err, token |-> ""]
    ELSE GenerateAccessToken(ValidateToken(refreshToken, clock).claims.userID,
                             ValidateToken(refreshToken, clock).claims.email,
                             ValidateToken(refreshToken, clock).claims.role, clock)

-----------------------------------------------------------------------------
(* Requests and the middlewares *)

\* The routes of the API and what the generated layer attaches to them:
\* bearerAuthScopes is the presence of api.BearerAuthScopes in the context
Routes ==
    { [method |-> "GET", path |-> "/status", bearerAuthScopes |-> FALSE],
      [method |-> "GET", path |-> "/test", bearerAuthScopes |-> TRUE] }

\* The address headers of the clients of the model
Clients ==
    { [xff |-> "", xri |-> "", remoteAddr |-> "192.0.2.1:1234"],
      [xff |-> "203.0.113.7", xri |-> "", remoteAddr |-> "192.0.2.1:1234"] }

AuthorizationHeaders ==
    { "", "Basic dXNlcg==", "bearer tok.user123", "Bearer ", "Bearer garbage",
      "Bearer tok.user123",
      "Bearer tok.stale", "Bearer tok.forged", "Bearer tok.none" }

NoHeaders == [n \in {} |-> ""]

\* No call of checkRateLimit yet
NoEval ==
    [limitType |-> "", key |-> "", keyErr |-> "nil", err |-> "not called",
     allowed |-> FALSE, current |-> 0, remaining |-> 0, resetTime |-> 0,
     nth |-> 0, clean |-> FALSE, after |-> "none"]

\* A slot with no request in it.  Besides the request and its response writer
\* a slot keeps, for the properties, the result of the last rateLimit
\* middleware that served the request (last) and what each middleware did
\* with it (trace).  deadline is the deadline of the request's context, where
\* the time of the redis call is followed (0 elsewhere); counted is the set
\* of keys whose stored count went up while a middleware served the request.
IdleRequest ==
    [state |-> "idle", at |-> 0,
     xff |-> "", xri |-> "", remoteAddr |-> "", method |-> "", path |-> "",
     bearerAuthScopes |-> FALSE, authorization |-> "",
     status |-> 0, body |-> "", headers |-> NoHeaders, ctx |-> NoHeaders,
     handlerCalls |-> 0, validateCalls |-> 0, deadline |-> 0,
     last |-> NoEval, trace |-> <<>>, counted |-> {}]

\* httptest.NewRequest / the request as the server hands it to the chain
NewRequest(client, route) ==
    [IdleRequest EXCEPT
        !.state = "running", !.at = 1,
        !.xff = client.xff, !.xri = client.xri, !.remoteAddr = client.remoteAddr,
        !.method = route.method, !.path = route.path,
        !.bearerAuthScopes = route.bearerAuthScopes]

\* next.ServeHTTP(writer, request): the next middleware of the chain runs
ServeNext(r) == [r EXCEPT !.at = @ + 1]

\* http.Error(writer, message, code): the response is written, nothing follows
HttpError(r, message, code) ==
    [r EXCEPT
        !.headers = HeaderSet(HeaderSet(@, "Content-Type", "text/plain; charset=utf-8"),
                              "X-Content-Type-Options", "nosniff"),
        !.status = code,
        !.body = message \o "\n",
        !.state = "done"]

\* Faulty variant: X-Ratelimit-Reset is left out
RateLimitHeadersNoReset(r, requests, c) ==
    [r EXCEPT !.headers =
        HeaderSet(HeaderSet(@,
            "X-Ratelimit-Limit", Itoa(requests)),
            "X-Ratelimit-Remaining", Itoa(c.remaining))]

\* Faulty variant: the headers an earlier middleware set are kept
RateLimitHeadersKeepFirst(r, requests, c) ==
    IF "X-Ratelimit-Limit" \in DOMAIN r.headers THEN r
    ELSE [r EXCEPT !.headers =
            HeaderSet(HeaderSet(HeaderSet(@,
                "X-Ratelimit-Limit", Itoa(requests)),
                "X-Ratelimit-Remaining", Itoa(c.remaining)),
                "X-Ratelimit-Reset", Itoa(c.resetTime))]

\* rateLimit, "set rate limit headers"
RateLimitHeaders(r, requests, c) ==
    [r EXCEPT !.headers =
        HeaderSet(HeaderSet(HeaderSet(@,
            "X-Ratelimit-Limit", Itoa(requests)),
            "X-Ratelimit-Remaining", Itoa(c.remaining)),
            "X-Ratelimit-Reset", Itoa(c.resetTime))]

\* Faulty variant: 429 without Retry-After
RateLimitExceededNoRetry(r, window) ==
    HttpError(r, "Rate limit exceeded", 429)

\* rateLimit, "check if rate limit exceeded"
RateLimitExceeded(r, window) ==
    HttpError([r EXCEPT !.headers = HeaderSet(@, "Retry-After", Itoa(window))],
              "Rate limit exceeded", 429)

\* Faulty variant: a failed check closes the door
LimitedFailClosed(k, c, requests, window, r) ==
    IF c.err # "nil" \/ ~c.allowed
    THEN [store |-> c.store, key |-> k, call |-> c,
          r |-> RateLimitExceeded(RateLimitHeaders(r, requests, c), window)]
    ELSE [store |-> c.store, key |-> k, call |-> c,
          r |-> ServeNext(RateLimitHeaders(r, requests, c))]

\* Faulty variant: a denied request gives its count back
LimitedRefund(k, c, requests, window, r) ==
    IF c.err # "nil"
    THEN [store |-> c.store, r |-> ServeNext(r), key |-> k, call |-> c]
    ELSE IF ~c.allowed
    THEN [store |-> [c.store EXCEPT ![k.key].count = @ - 1], key |-> k, call |-> c,
          r |-> RateLimitExceeded(RateLimitHeaders(r, requests, c), window)]
    ELSE [store |-> c.store, key |-> k, call |-> c,
          r |-> ServeNext(RateLimitHeaders(r, requests, c))]

\* rateLimit after checkRateLimit returned c
Limited(k, c, requests, window, r) ==
    IF c.err # "nil"
    THEN [store |-> c.store, r |-> ServeNext(r), key |-> k, call |-> c]
    ELSE IF ~c.allowed
    THEN [store |-> c.store, key |-> k, call |-> c,
          r |-> RateLimitExceeded(RateLimitHeaders(r, requests, c), window)]
    ELSE [store |-> c.store, key |-> k, call |-> c,
          r |-> ServeNext(RateLimitHeaders(r, requests, c))]

\* Faulty variant: without a key the request is turned away
KeyedFailClosed(k, requests, window, st, clock, r, fault) ==
    IF k.err # "nil"
    THEN [store |-> st, r |-> HttpError(r, "Internal Server Error", 500), key |-> k,
          call |-> RateLimitError(st, "not called")]
    ELSE Limited(k, checkRateLimit(st, k.key, requests, window, clock, fault),
                 requests, window, r)

\* rateLimit after generateRateLimitKey returned k
Keyed(k, requests, window, st, clock, r, fault) ==
    IF k.err # "nil"
    THEN [store |-> st, r |-> ServeNext(r), key |-> k,
          call |-> RateLimitError(st, "not called")]
    ELSE Limited(k, checkRateLimit(st, k.key, requests, window, clock, fault),
                 requests, window, r)

\* The handler the middleware rateLimit returns: [store, r, key, call]
\*   key is the result of generateRateLimitKey, call that of checkRateLimit
rateLimit(limitType, requests, window, st, clock, r, fault) ==
    Keyed(generateRateLimitKey(limitType, r), requests, window, st, clock, r, fault)

\* JWTAuth, the answer of every rejection
Unauthorized(r) == HttpError(r, "Unauthorized", 401)

\* Faulty variant: the result of ValidateToken is not looked at
ValidatedFailOpen(r, v) ==
    ServeNext([r EXCEPT
        !.validateCalls = @ + 1,
        !.ctx = ("user_id" :> v.claims.userID) @@ ("user_email" :> v.claims.email)
                  @@ ("user_role" :> v.claims.role) @@ ("claims" :> v.claims)])

\* Faulty variant: the role is taken from the wrong field of the claims
ValidatedWrongRole(r, v) ==
    IF v.err # "nil"
    THEN [Unauthorized(r) EXCEPT !.validateCalls = @ + 1]
    ELSE ServeNext([r EXCEPT
            !.validateCalls = @ + 1,
            !.ctx = ("user_id" :> v.claims.userID) @@ ("user_email" :> v.claims.email)
                      @@ ("user_role" :> v.claims.email) @@ ("claims" :> v.claims)])

\* Faulty variant: an expired token is told from the other failures
ValidatedTellsExpired(r, v) ==
    IF v.err = "ErrExpiredToken"
    THEN [HttpError(r, "Token expired", 401) EXCEPT !.validateCalls = @ + 1]
    ELSE IF v.err # "nil"
    THEN [Unauthorized(r) EXCEPT !.validateCalls = @ + 1]
    ELSE ServeNext([r EXCEPT
            !.validateCalls = @ + 1,
            !.ctx = ("user_id" :> v.claims.userID) @@ ("user_email" :> v.claims.email)
                      @@ ("user_role" :> v.claims.role) @@ ("claims" :> v.claims)])

\* JWTAuth after ValidateToken returned v
Validated(r, v) ==
    IF v.err # "nil"
    THEN [Unauthorized(r) EXCEPT !.validateCalls = @ + 1]
    ELSE ServeNext([r EXCEPT
            !.validateCalls = @ + 1,
            !.ctx = ("user_id" :> v.claims.userID) @@ ("user_email" :> v.claims.email)
                      @@ ("user_role" :> v.claims.role) @@ ("claims" :> v.claims)])

\* Faulty variant: an empty token goes to ValidateToken
ExtractedUnchecked(r, tokenString, clock) ==
    Validated(r, ValidateToken(tokenString, clock))

\* JWTAuth with the token extracted from the header
Extracted(r, tokenString, clock) ==
    IF tokenString = "" THEN Unauthorized(r)
    ELSE Validated(r, ValidateToken(tokenString, clock))

\* Faulty variant: every route is taken to require authentication
JWTAuthEveryRoute(r, clock) ==
    IF r.authorization = "" THEN Unauthorized(r)
    ELSE IF ~HasPrefix(r.authorization, "Bearer ") THEN Unauthorized(r)
    ELSE Extracted(r, TrimPrefix(r.authorization, "Bearer "), clock)

\* The handler the middleware JWTAuth returns
JWTAuth(r, clock) ==
    IF ~r.bearerAuthScopes THEN ServeNext(r)
    ELSE IF r.authorization = "" THEN Unauthorized(r)
    ELSE IF ~HasPrefix(r.authorization, "Bearer ") THEN Unauthorized(r)
    ELSE Extracted(r, TrimPrefix(r.authorization, "Bearer "), clock)

-----------------------------------------------------------------------------
(* The chain the server builds *)

Stage(cfg, t) ==
    [kind |-> "rateLimit", limitType |-> t,
     requests |-> cfg[t].requests, window |-> cfg[t].window]

\* Faulty variant: the three middlewares are installed whatever is enabled
setupRateLimitMiddlewaresAll(cfg) ==
    <<Stage(cfg, RateLimitTypeGlobal), Stage(cfg, RateLimitTypeIP),
      Stage(cfg, RateLimitTypeEndpoint)>>

\* Server.setupRateLimitMiddlewares: one rateLimit middleware per enabled
\* scope, in the order global, ip, endpoint
setupRateLimitMiddlewares(cfg) ==
    (IF cfg[RateLimitTypeGlobal].enabled THEN <<Stage(cfg, RateLimitTypeGlobal)>> ELSE <<>>)
    \o (IF cfg[RateLimitTypeIP].enabled THEN <<Stage(cfg, RateLimitTypeIP)>> ELSE <<>>)
    \o (IF cfg[RateLimitTypeEndpoint].enabled THEN <<Stage(cfg, RateLimitTypeEndpoint)>> ELSE <<>>)

Other(kind) == [kind |-> kind, limitType |-> "", requests |-> 0, window |-> 0]

\* Server.setupRouter: the router-level middlewares.  The basic middlewares
\* and the CORS handler change nothing that the later middlewares read of
\* the requests of the model (RealIP rewrites RemoteAddr only of requests
\* with address headers, which getClientIP reads first) and are left out of
\* the chain.
setupRouter(cfg) == setupRateLimitMiddlewares(cfg)

\* Faulty variant: JWTAuth is installed in front of the router's middlewares
setupAPIHandlerGateFirst(router) == <<Other("JWTAuth")>> \o router \o <<Other("handler")>>

\* Server.setupAPIHandler: every route of the API is wrapped in JWTAuth and
\* mounted on the router
setupAPIHandler(router) == router \o <<Other("JWTAuth"), Other("handler")>>

\* server.New
NewServer(cfg) == setupAPIHandler(setupRouter(cfg))

-----------------------------------------------------------------------------
(* Configurations the model starts from *)

ScopeIndex(t) ==
    CASE t = RateLimitTypeGlobal -> 0
      [] t = RateLimitTypeIP -> 1
      [] t = RateLimitTypeEndpoint -> 2

\* Each scope gets its own limit and window: the limits MaxRequests, 1, 0 and
\* the windows 1..MaxWindow, rotated over the scopes; any set of scopes enabled
Configs ==
    { [t \in Scopes |->
          [enabled  |-> t \in on,
           requests |-> <<MaxRequests, 1, 0>>[((ScopeIndex(t) + rot) % 3) + 1],
           window   |-> ((ScopeIndex(t) + rot) % MaxWindow) + 1]]
      : on \in SUBSET Scopes, rot \in 0..2 }

-----------------------------------------------------------------------------
(* The configuration of the server and its defaults *)

\* A pointer: nil, or the address of a value
Nil == <<>>

Ref(v) == <<v>>

Deref(p) == p[1]

\* &middleware.RateLimitTypeConfig{}
EmptyRateLimitTypeConfig == [Enabled |-> Nil, Requests |-> Nil, Window |-> Nil]

\* &middleware.RateLimitConfig{}
EmptyRateLimitConfig == [Global |-> Nil, IP |-> Nil, Endpoint |-> Nil]

\* &server.Config{}, with the fields the model reads
EmptyConfig == [ReadTimeout |-> Nil, RateLimit |-> Nil]

\* "if p == nil { p = &value }"
IfNil(p, value) == IF p = Nil THEN Ref(value) ELSE p

\* Faulty variant: the defaults are written over what was set
Overwritten(p, enabled, requests, window) ==
    Ref([Enabled |-> Ref(enabled), Requests |-> Ref(requests), Window |-> Ref(window)])

\* The three steps of a set...RateLimitDefault on the pointer of one scope
Defaulted(p, enabled, requests, window) ==
    Ref([Enabled  |-> IfNil(Deref(IfNil(p, EmptyRateLimitTypeConfig)).Enabled, enabled),
         Requests |-> IfNil(Deref(IfNil(p, EmptyRateLimitTypeConfig)).Requests, requests),
         Window   |-> IfNil(Deref(IfNil(p, EmptyRateLimitTypeConfig)).Window, window)])

\* Config.setGlobalRateLimitDefault
setGlobalRateLimitDefault(c) ==
    [c EXCEPT !.RateLimit =
        Ref([Deref(@) EXCEPT !.Global = Defaulted(@, FALSE, 1000, 60)])]

\* Config.setIPRateLimitDefault
setIPRateLimitDefault(c) ==
    [c EXCEPT !.RateLimit =
        Ref([Deref(@) EXCEPT !.IP = Defaulted(@, TRUE, 100, 60)])]

\* Config.setEndpointRateLimitDefault
setEndpointRateLimitDefault(c) ==
    [c EXCEPT !.RateLimit =
        Ref([Deref(@) EXCEPT !.Endpoint = Defaulted(@, FALSE, 50, 60)])]

\* Config.setRateLimitDefault
setRateLimitDefault(c) ==
    setEndpointRateLimitDefault(setIPRateLimitDefault(setGlobalRateLimitDefault(
        [c EXCEPT !.RateLimit = IfNil(@, EmptyRateLimitConfig)])))

\* Config.setServerDefault, for the field the model reads
setServerDefault(c) == [c EXCEPT !.ReadTimeout = IfNil(@, 10)]

\* Config.SetDefault.  The compression, CORS and metrics defaults are set the
\* same way and are read by no middleware of the model.
SetDefault(c) == setRateLimitDefault(setServerDefault(c))

\* The field of RateLimitConfig that holds the configuration of a scope
ScopeField(t) ==
    CASE t = RateLimitTypeGlobal -> "Global"
      [] t = RateLimitTypeIP -> "IP"
      [] t = RateLimitTypeEndpoint -> "Endpoint"

\* *config.RateLimit.<scope>
TypeConfig(c, t) == Deref(Deref(c.RateLimit)[ScopeField(t)])

\* What Server.setupRateLimitMiddlewares reads of the configuration
Policy(c) ==
    [t \in Scopes |->
        [enabled  |-> Deref(TypeConfig(c, t).Enabled),
         requests |-> Deref(TypeConfig(c, t).Requests),
         window   |-> Deref(TypeConfig(c, t).Window)]]

\* The configurations SetDefault is applied to: every pointer nil or set
RateLimitTypeConfigs ==
    {Nil} \cup
    { Ref([Enabled |-> e, Requests |-> r, Window |-> w]) :
        e \in {Nil, Ref(TRUE), Ref(FALSE)},
        r \in {Nil, Ref(MaxRequests)},
        w \in {Nil, Ref(MaxWindow)} }

ServerConfigs ==
    { [ReadTimeout |-> rt, RateLimit |-> rl] :
        rt \in {Nil, Ref(MaxReadTimeout)},
        rl \in {Nil} \cup
               { Ref([Global |-> g, IP |-> i, Endpoint |-> e]) :
                   g \in RateLimitTypeConfigs, i \in RateLimitTypeConfigs,
                   e \in RateLimitTypeConfigs } }

-----------------------------------------------------------------------------
(* History of the calls on a key, kept for the properties only *)

\* calls, granted: the calls of the window and those that were allowed, as
\* long as every call of the window came back (clean); denied: a call of
\* the window was denied; past: what the key's previous window ended as;
\* ran: the runs of the script in the window; seen: the counts the calls of
\* the window returned, twice: one of them was returned twice; since: the
\* time of the window's first run
NoCalls ==
    [calls |-> 0, granted |-> 0, clean |-> TRUE, denied |-> FALSE, past |-> "none",
     ran |-> 0, seen |-> {}, twice |-> FALSE, since |-> 0]

\* The window a call on key joins: a new one when the key does not exist
WindowOf(key) ==
    IF key \notin DOMAIN win THEN [NoCalls EXCEPT !.since = now]
    ELSE IF KeyExists(store, key) THEN win[key]
    ELSE [NoCalls EXCEPT !.past = win[key].past, !.since = now]

\* The runs and the returned counts of the window after one more call
Ran(w, call, fault) ==
    [w EXCEPT
        !.ran = @ + (IF fault = "refused" THEN 0 ELSE 1),
        !.twice = @ \/ (call.err = "nil" /\ call.current \in w.seen),
        !.seen = IF call.err = "nil" THEN @ \cup {call.current} ELSE @]

Counted(before, call, fault) ==
    IF before.clean /\ fault = "none"
    THEN Ran([before EXCEPT
                !.calls = @ + 1,
                !.granted = @ + (IF call.allowed THEN 1 ELSE 0),
                !.denied = @ \/ ~call.allowed], call, fault)
    ELSE Ran([before EXCEPT
                !.calls = 0, !.granted = 0, !.clean = FALSE,
                !.denied = @ \/ (call.err = "nil" /\ ~call.allowed)], call, fault)

Recorded(key, out, fault) ==
    [k \in (DOMAIN win) \cup (DOMAIN out.store) |->
        IF k = key /\ k \in DOMAIN out.store
        THEN Counted(WindowOf(key), out.call, fault)
        ELSE win[k]]

\* The window of an expired key is over
Closed(w) ==
    [NoCalls EXCEPT !.past = IF w.denied THEN "denied" ELSE "counted", !.since = w.since]

Outcome(out) ==
    IF out.key.err # "nil" THEN "nokey"
    ELSE IF out.call.err # "nil" THEN "error"
    ELSE IF out.call.allowed THEN "allowed" ELSE "denied"

\* The keys whose counter is new or higher in `after`
Raised(before, after) ==
    {k \in DOMAIN after : k \notin DOMAIN before \/ after[k].count > before[k].count}

\* The request after a rateLimit middleware, with what the middleware did
Logged(stage, out, before, fault) ==
    [out.r EXCEPT
        !.last = [limitType |-> stage.limitType,
                  key       |-> out.key.key,
                  keyErr    |-> out.key.err,
                  err       |-> out.call.err,
                  allowed   |-> out.call.allowed,
                  current   |-> out.call.current,
                  remaining |-> out.call.remaining,
                  resetTime |-> out.call.resetTime,
                  nth       |-> before.calls + 1,
                  clean     |-> before.clean /\ fault = "none",
                  after     |-> before.past],
        !.trace = Append(@, <<stage.limitType, Outcome(out)>>),
        !.counted = @ \cup Raised(store, out.store)]

-----------------------------------------------------------------------------
(* Initial state and actions *)

\* No function is called on its own
NoCall == [op |-> "none"]

Init ==
    /\ config \in Configs
    /\ chain = NewServer(config)
    /\ store = [k \in {} |-> [count |-> 0, ttl |-> 0]]
    /\ now = 0
    /\ req = [s \in Slots |-> IdleRequest]
    /\ done = IdleRequest
    /\ arrivals = 0
    /\ win = [k \in {} |-> NoCalls]
    /\ invoked = NoCall
    /\ returned = NoCall

\* The route handler answers (Handler.sendResponse)
Handler(r) ==
    [r EXCEPT !.handlerCalls = @ + 1,
              !.headers = HeaderSet(@, "Content-Type", "application/json"),
              !.status = 501, !.body = "{}\n",
              !.state = "done", !.trace = Append(@, <<"handler", "called">>)]

\* The characters of a string
Chars(str) == {SubSeq(str, i, i) : i \in 1..Len(str)}

\* net.ParseIP, as far as the addresses of the model go: four groups of
\* digits with dots, or groups of hexadecimal digits with colons
ParseIP(str) ==
    \/ /\ Chars(str) \subseteq {"0", "1", "2", "3", "4", "5", "6", "7", "8", "9", "."}
       /\ Cardinality({i \in 1..Len(str) : SubSeq(str, i, i) = "."}) = 3
    \/ /\ Chars(str) \subseteq {"0", "1", "2", "3", "4", "5", "6", "7", "8", "9",
                                  "a", "b", "c", "d", "e", "f", ":"}
       /\ Cardinality({i \in 1..Len(str) : SubSeq(str, i, i) = ":"}) >= 2

\* The address the RealIP middleware reads from the headers: X-Real-IP, else
\* the first element of X-Forwarded-For
ForwardedIP(r) ==
    IF r.xri # "" THEN r.xri
    ELSE IF IndexFrom(r.xff, ",", 1) = 0 THEN r.xff
    ELSE SubSeq(r.xff, 1, IndexFrom(r.xff, ",", 1) - 1)

\* middleware.RealIP, the second of the basic middlewares: RemoteAddr
\* becomes the address of the headers when that is an IP address; a request
\* without these headers is passed on as it came
RealIP(r) ==
    IF ForwardedIP(r) # "" /\ ParseIP(ForwardedIP(r))
    THEN [r EXCEPT !.remoteAddr = ForwardedIP(r)]
    ELSE r

\* The router has a route for the request's method and path
Matched(r) == \E route \in Routes : route.method = r.method /\ route.path = r.path

\* The router's answer to a request for which it has no route, after its
\* middlewares: the route handlers and the JWTAuth around them are not reached
NotFound(r) ==
    [HttpError(r, "404 page not found", 404) EXCEPT
        !.trace = Append(@, <<"router", "not found">>)]

\* The request after JWTAuth, with what the middleware did
Gated(out) ==
    [out EXCEPT !.trace = Append(@,
        <<"JWTAuth", IF out.state = "done" THEN "rejected" ELSE "passed">>)]

\* JWTAuth serves the request that carries the given Authorization header
Authenticated(r, authorization, clock) ==
    Gated(JWTAuth([r EXCEPT !.authorization = authorization], clock))

\* The middlewares after a rateLimit middleware run in the request's own
\* goroutine and share nothing with other requests: the request goes on, in
\* the same step, until it is answered or reaches the next rateLimit
\* middleware, whose redis call is a step of its own
RECURSIVE Served(_, _, _)
Served(r, authorization, clock) ==
    IF r.state # "running" THEN r
    ELSE CASE chain[r.at].kind = "rateLimit" -> r
           [] chain[r.at].kind = "JWTAuth" /\ ~Matched(r) -> NotFound(r)
           [] chain[r.at].kind = "JWTAuth" /\ Matched(r) ->
                Served(Authenticated(r, authorization, clock), authorization, clock)
           [] chain[r.at].kind = "handler" -> Handler(r)

\* The slot after the step that took request s to r: an answered request
\* leaves its slot
Settled(s, r) ==
    IF r.state = "done"
    THEN /\ req' = [req EXCEPT ![s] = IdleRequest]
         /\ done' = r
    ELSE /\ req' = [req EXCEPT ![s] = r]
         /\ done' = IdleRequest

\* The request goes on from r; its Authorization header is an input of the
\* step in which JWTAuth reads it
Forward(s, r, headers) ==
    \E authorization \in
          (IF r.state = "running" /\ chain[r.at].kind # "rateLimit" THEN headers ELSE {""}) :
       Settled(s, Served(r, authorization, now))

\* A request arrives and enters the chain
Arrive(s, quota, headers) ==
    /\ req[s].state = "idle"
    /\ \A t \in Slots : t < s => req[t].state # "idle"
    /\ arrivals < quota
    /\ \E client \in Clients, route \in Routes :
          Forward(s, NewRequest(client, route), headers)
    /\ arrivals' = arrivals + 1
    /\ UNCHANGED <<config, chain, store, now, win, invoked, returned>>

\* The effect of a rateLimit middleware that served request s with result out
Call(s, stage, out, fault, headers) ==
    /\ store' = out.store
    /\ Forward(s, Logged(stage, out, WindowOf(out.key.key), fault), headers)
    /\ win' = IF out.key.err = "nil" THEN Recorded(out.key.key, out, fault) ELSE win

\* The rateLimit middleware `stage` serves request s
Stepped(s, stage, fault, headers) ==
    Call(s, stage,
         rateLimit(stage.limitType, stage.requests, stage.window, store, now, req[s], fault),
         fault, headers)

\* A rateLimit middleware serves the request: one call of redis
Limit(s, faults, headers) ==
    /\ req[s].state = "running"
    /\ chain[req[s].at].kind = "rateLimit"
    /\ \E fault \in faults : Stepped(s, chain[req[s].at], fault, headers)
    /\ UNCHANGED <<config, chain, now, arrivals, invoked, returned>>

\* One second passes: redis counts the TTLs down and drops the expired keys
Expire(alive) ==
    /\ store' = [k \in alive |-> [store[k] EXCEPT !.ttl = @ - 1]]
    /\ win' = [k \in DOMAIN win |-> IF k \in alive THEN win[k] ELSE Closed(win[k])]

Tick ==
    /\ now < MaxTime
    /\ now' = now + 1
    /\ Expire({k \in DOMAIN store : store[k].ttl > 1})
    /\ done' = IdleRequest
    /\ UNCHANGED <<config, chain, req, arrivals, invoked, returned>>

\* A request for GET /invalid, which is no route of the API
Unrouted == [method |-> "GET", path |-> "/invalid", bearerAuthScopes |-> FALSE]

\* A request arrives, for a route of the API or for no route
ArriveAnywhere(s, quota, headers) ==
    /\ req[s].state = "idle"
    /\ \A t \in Slots : t < s => req[t].state # "idle"
    /\ arrivals < quota
    /\ \E client \in Clients, route \in Routes \cup {Unrouted} :
          Forward(s, NewRequest(client, route), headers)
    /\ arrivals' = arrivals + 1
    /\ UNCHANGED <<config, chain, store, now, win, invoked, returned>>

\* The assembled server, serving one request after the other: any
\* configuration, any Authorization header, a redis that can be unreachable
Next ==
    \/ Arrive(1, MaxServed, AuthorizationHeaders)
    \/ Limit(1, ConnectionFaults, AuthorizationHeaders)
    \/ Tick

Spec == Init /\ [][Next]_vars

\* No Authorization header, or the bearer token of a user
Credentials == {"", "Bearer tok.user123"}

\* The assembled server with requests for paths that are no route
NextRouted ==
    \/ ArriveAnywhere(1, MaxServed, Credentials)
    \/ Limit(1, ConnectionFaults, Credentials)
    \/ Tick

SpecRouted == Init /\ [][NextRouted]_vars

\* One rateLimit middleware under concurrent requests without credentials,
\* with every failure of the redis call
InitLimiter ==
    /\ Init
    /\ Cardinality({t \in Scopes : config[t].enabled}) = 1

NextLimiter ==
    \/ \E s \in Slots : Arrive(s, MaxArrivals, {""})
    \/ \E s \in Slots : Limit(s, Faults, {""})
    \/ Tick

SpecLimiter == InitLimiter /\ [][NextLimiter]_vars

-----------------------------------------------------------------------------
(* The redis call in time: redis may answer late or never *)

\* Faulty variant: the request's context has no deadline
NoDeadline(clock) == MaxTime + MaxReadTimeout + 1

\* middleware.Timeout(ReadTimeout): the deadline of the context of a request
\* that arrives at clock
Deadline(clock) == clock + MaxReadTimeout

\* A request arrives, early enough for the model's clock to reach its deadline
Enter(s, quota, headers) ==
    /\ req[s].state = "idle"
    /\ \A t \in Slots : t < s => req[t].state # "idle"
    /\ arrivals < quota
    /\ now + MaxReadTimeout <= MaxTime
    /\ \E client \in Clients, route \in Routes :
          Forward(s, [NewRequest(client, route) EXCEPT !.deadline = Deadline(now)], headers)
    /\ arrivals' = arrivals + 1
    /\ UNCHANGED <<config, chain, store, now, win, invoked, returned>>

\* checkRateLimit sends the script: redis.Eval is outstanding
Issue(s) ==
    /\ req[s].state = "running"
    /\ chain[req[s].at].kind = "rateLimit"
    /\ req' = [req EXCEPT ![s].state = "waiting"]
    /\ done' = IdleRequest
    /\ UNCHANGED <<config, chain, store, now, arrivals, win, invoked, returned>>

\* redis.Eval returns to the rateLimit middleware of request s
Returning(s, fault, headers) ==
    /\ Call(s, chain[req[s].at],
            rateLimit(chain[req[s].at].limitType, chain[req[s].at].requests,
                      chain[req[s].at].window, store, now,
                      [req[s] EXCEPT !.state = "running"], fault),
            fault, headers)
    /\ UNCHANGED <<config, chain, now, arrivals, invoked, returned>>

\* redis answers in time
Answer(s, headers) ==
    /\ req[s].state = "waiting"
    /\ now < req[s].deadline
    /\ Returning(s, "none", headers)

\* The context is done while redis.Eval is outstanding: Eval returns the
\* context's error, whether the script ran or not
DeadlineExceeded(s, headers) ==
    /\ req[s].state = "waiting"
    /\ now >= req[s].deadline
    /\ \E fault \in {"refused", "timeout"} : Returning(s, fault, headers)

\* One request after the other: a request waits for nothing but redis
NextLive ==
    \/ Enter(1, MaxServed, {""})
    \/ Issue(1)
    \/ Answer(1, {""})
    \/ DeadlineExceeded(1, {""})
    \/ Tick

\* Goroutines run and time passes; nothing makes redis answer
SpecLive ==
    /\ InitLimiter
    /\ [][NextLive]_vars
    /\ WF_vars(Tick)
    /\ WF_vars(Issue(1))
    /\ WF_vars(DeadlineExceeded(1, {""}))

-----------------------------------------------------------------------------
(* The functions of the packages, called on their own *)

\* The address headers and remote addresses a request can come with: no
\* header, one address, a chain of proxies
Addresses ==
    { [xff |-> f, xri |-> i, remoteAddr |-> a] :
        f \in {"", "203.0.113.7", "203.0.113.7, 10.0.0.1", "2001:db8::1",
                "203.0.113.7:GET:/status"},
        i \in {"", "198.51.100.2"},
        a \in {"192.0.2.1:1234", "10.0.0.1:80"} }

\* The method and path a request can come with: those of the routes and
\* others, which the limiters see as well
Endpoints ==
    Routes \cup
    { [method |-> "POST", path |-> "/status", bearerAuthScopes |-> FALSE],
      [method |-> "GET", path |-> "/status:GET:/test", bearerAuthScopes |-> FALSE] }

\* A server built from the empty configuration; nothing is in flight
InitCalls ==
    /\ config = Policy(SetDefault(EmptyConfig))
    /\ chain = NewServer(config)
    /\ store = [k \in {} |-> [count |-> 0, ttl |-> 0]]
    /\ now = 0
    /\ req = [s \in Slots |-> IdleRequest]
    /\ done = IdleRequest
    /\ arrivals = 0
    /\ win = [k \in {} |-> NoCalls]
    /\ invoked = NoCall
    /\ returned = NoCall

\* A client behind a proxy
PlainClient == [xff |-> "203.0.113.7", xri |-> "", remoteAddr |-> "192.0.2.1:1234"]

\* generateRateLimitKey(limitType, request)
KeyCall ==
    /\ invoked = NoCall
    /\ \E t \in Scopes \cup {"user"}, client \in Addresses, route \in Endpoints :
          /\ invoked' = [op |-> "generateRateLimitKey", limitType |-> t,
                         request |-> NewRequest(client, route)]
          /\ returned' = generateRateLimitKey(t, NewRequest(client, route))
    /\ UNCHANGED <<config, chain, store, now, req, done, arrivals, win>>

\* Issuers and audiences other than the configured ones: of another service,
\* or none
OtherIssuers == {"another-service", ""}

OtherAudiences == {"another_audience"}

\* The claims with another issuer and audience
Reissued(c, iss, aud) == [c EXCEPT !.iss = iss, !.aud = aud]

\* The token strings presented to the service, each with how it was made: the
\* key that signed it and its expiry, or that it is no JWT at all.  They are
\* the tokens of this service and of a service with another secret, issued
\* at any time of a clock that may be ahead, the tokens that are not written
\* out, and strings that are not tokens.
PresentedTokens ==
    { [tokenString |-> SignedString("HS256",
                          NewClaims(u.userID, u.email, u.role, ttl, c), key),
       form |-> "jwt", signedWith |-> key, exp |-> c + ttl] :
        u \in Users, ttl \in {AccessTokenTTL, RefreshTokenTTL}, c \in 0..MaxTime,
        key \in {SecretKey, "different-secret-key"} }
    \cup { [tokenString |-> SignedString("HS256",
                              Reissued(NewClaims("user123", "test@example.com", "user",
                                                 ttl, c), iss, aud), SecretKey),
            form |-> "jwt", signedWith |-> SecretKey, exp |-> c + ttl] :
            ttl \in {AccessTokenTTL, RefreshTokenTTL}, c \in 0..MaxTime,
            iss \in OtherIssuers, aud \in OtherAudiences }
    \cup { [tokenString |-> "tok.user123", form |-> "jwt", signedWith |-> SecretKey,
            exp |-> MaxTime + 1],
          [tokenString |-> "tok.stale", form |-> "jwt", signedWith |-> SecretKey,
            exp |-> 1],
          [tokenString |-> "tok.forged", form |-> "jwt",
            signedWith |-> "different-secret-key", exp |-> MaxTime + 1],
          [tokenString |-> "tok.none", form |-> "jwt", signedWith |-> "",
            exp |-> MaxTime + 1] }
    \cup { [tokenString |-> t, form |-> "malformed", signedWith |-> "", exp |-> 0] :
            t \in {"", "garbage", "a.b.c",
                   SigningString("HS256", NewClaims("user123", "test@example.com", "user",
                                                    AccessTokenTTL, 0))} }

\* The token the last call returned
Held ==
    IF invoked.op \in {"GenerateAccessToken", "GenerateRefreshToken", "RefreshAccessToken"}
         /\ returned.err = "nil"
    THEN { [tokenString |-> returned.token, form |-> "jwt", signedWith |-> SecretKey,
            exp |-> invoked.at + (IF invoked.op = "GenerateRefreshToken"
                                  THEN RefreshTokenTTL ELSE AccessTokenTTL)] }
    ELSE {}

\* What the next call can be given: any presented token when no call was
\* made, the token in hand after a call
Offered == IF invoked = NoCall THEN PresentedTokens ELSE Held

\* JWT.GenerateAccessToken / JWT.GenerateRefreshToken at the clock
GenerateCall ==
    /\ invoked = NoCall
    /\ \E u \in Users :
          \/ /\ invoked' = [op |-> "GenerateAccessToken", userID |-> u.userID,
                             email |-> u.email, role |-> u.role, at |-> now]
             /\ returned' = GenerateAccessToken(u.userID, u.email, u.role, now)
          \/ /\ invoked' = [op |-> "GenerateRefreshToken", userID |-> u.userID,
                             email |-> u.email, role |-> u.role, at |-> now]
             /\ returned' = GenerateRefreshToken(u.userID, u.email, u.role, now)
    /\ UNCHANGED <<config, chain, store, now, req, done, arrivals, win>>

\* JWT.ValidateToken at the clock, on a presented token or the one just issued
ValidateCall ==
    /\ \E p \in Offered :
          /\ invoked' = [op |-> "ValidateToken", tokenString |-> p.tokenString,
                         form |-> p.form, signedWith |-> p.signedWith, exp |-> p.exp,
                         at |-> now]
          /\ returned' = ValidateToken(p.tokenString, now)
    /\ UNCHANGED <<config, chain, store, now, req, done, arrivals, win>>

\* JWT.RefreshAccessToken at the clock; nth counts the refreshes in a row of
\* the token the refresh before returned
RefreshCall ==
    /\ \E p \in Offered :
          /\ invoked' = [op |-> "RefreshAccessToken", tokenString |-> p.tokenString,
                         form |-> p.form, signedWith |-> p.signedWith, exp |-> p.exp,
                         at |-> now,
                         nth |-> IF invoked.op = "RefreshAccessToken"
                                 THEN Min(invoked.nth + 1, MaxRefreshes) ELSE 1]
          /\ returned' = RefreshAccessToken(p.tokenString, now)
    /\ UNCHANGED <<config, chain, store, now, req, done, arrivals, win>>

\* Config.SetDefault on a configuration as it was loaded
SetDefaultCall ==
    /\ invoked = NoCall
    /\ \E c \in ServerConfigs :
          /\ invoked' = [op |-> "SetDefault", config |-> c]
          /\ returned' = [config |-> SetDefault(c)]
    /\ UNCHANGED <<config, chain, store, now, req, done, arrivals, win>>

\* What the handler that rateLimit returns did with the request that came
\* from the remote address peer
Handled(t, request, peer, out) ==
    /\ invoked' = [op |-> "rateLimit", limitType |-> t, request |-> request,
                   peer |-> peer]
    /\ returned' = [r |-> out.r, key |-> out.key, call |-> out.call]
    /\ store' = out.store

\* A client behind a proxy, and two connections of one host without proxy
StageClients ==
    { PlainClient,
      [xff |-> "", xri |-> "", remoteAddr |-> "192.0.2.1:1234"],
      [xff |-> "", xri |-> "", remoteAddr |-> "192.0.2.1:5678"] }

\* rateLimit(limitType, 1, 1s, redis, logger)(next) serves a request that
\* came through RealIP; the scope is any string, as the type RateLimitType
\* allows
RateLimitCall ==
    /\ invoked = NoCall
    /\ \A k \in DOMAIN store : store[k].count < MaxRequests
    /\ Cardinality(DOMAIN store) < MaxBuckets
    /\ \E t \in Scopes \cup {"user"}, client \in StageClients, route \in Routes,
          fault \in ConnectionFaults :
          Handled(t, RealIP(NewRequest(client, route)), client.remoteAddr,
                  rateLimit(t, 1, 1, store, now, RealIP(NewRequest(client, route)), fault))
    /\ UNCHANGED <<config, chain, now, req, done, arrivals, win>>

\* The route that requires bearer authentication
SecuredRoute == [method |-> "GET", path |-> "/test", bearerAuthScopes |-> TRUE]

\* JWTAuth serves a request for the secured route that carries the token as
\* its bearer token; what is returned is the request after the middleware
GateCall ==
    /\ \E p \in Offered :
          /\ invoked' = [op |-> "JWTAuth", tokenString |-> p.tokenString,
                         form |-> p.form, signedWith |-> p.signedWith, exp |-> p.exp,
                         at |-> now]
          /\ returned' = Authenticated(NewRequest(PlainClient, SecuredRoute),
                                       "Bearer " \o p.tokenString, now)
    /\ UNCHANGED <<config, chain, store, now, req, done, arrivals, win>>

\* The caller is done with what the call returned
Forget ==
    /\ invoked # NoCall
    /\ invoked' = NoCall
    /\ returned' = NoCall
    /\ UNCHANGED <<config, chain, store, now, req, done, arrivals, win>>

NextCalls ==
    \/ KeyCall
    \/ GenerateCall
    \/ ValidateCall
    \/ RefreshCall
    \/ SetDefaultCall
    \/ GateCall
    \/ Forget
    \/ Tick

SpecCalls == InitCalls /\ [][NextCalls]_vars

\* One rateLimit middleware, built for any scope, serving on its own
NextStage ==
    \/ RateLimitCall
    \/ Forget
    \/ Tick

SpecStage == InitCalls /\ [][NextStage]_vars

-----------------------------------------------------------------------------
(* Properties *)

\* The requests of the state: those in flight and the one just answered
Requests == {r \in {req[s] : s \in Slots} \cup {done} : r.state # "idle"}

\* The scope whose counter a redis key is
ScopeOfKey(k) == CHOOSE t \in Scopes : HasPrefix(k, "rate_limit:" \o t)

\* The enabled scopes in the order global, ip, endpoint
EnabledScopes ==
    SelectSeq(<<RateLimitTypeGlobal, RateLimitTypeIP, RateLimitTypeEndpoint>>,
              LAMBDA t : config[t].enabled)

\* Request s is served by a rateLimit middleware in this step ...
Called(s) == req[s].state = "running" /\ req'[s] # req[s]

\* ... and this is the request after the step
After(s) == IF req'[s].state = "idle" THEN done' ELSE req'[s]

\* What middleware `kind` noted in the trace of r
Entries(r, kind) == {i \in DOMAIN r.trace : r.trace[i][1] = kind}

Outcomes(r) == {r.trace[i][2] : i \in DOMAIN r.trace}

\* The value of a counter: nothing counted when the key does not exist
Counter(st, k) == IF k \in DOMAIN st THEN st[k] ELSE [count |-> 0, ttl |-> 0]

RateLimitHeaderNames ==
    {"X-Ratelimit-Limit", "X-Ratelimit-Remaining", "X-Ratelimit-Reset", "Retry-After"}

\* C1: of the m calls of checkRateLimit on a key inside one window, whatever
\* their interleaving, exactly min(m, N) are allowed, N being maxRequests:
\* never more than N, and all of the first N.
C1_Atomicity ==
    \A k \in DOMAIN store :
        /\ win[k].granted <= config[ScopeOfKey(k)].requests
        /\ win[k].clean =>
              win[k].granted = Min(win[k].calls, config[ScopeOfKey(k)].requests)

\* N + 1 calls on a key in one window with N = MaxRequests: N were allowed
C1_Witness ==
    \E k \in DOMAIN store :
        /\ config[ScopeOfKey(k)].requests = MaxRequests
        /\ win[k].clean
        /\ win[k].calls = MaxRequests + 1
        /\ win[k].granted = MaxRequests

\* C2: the i-th call on a key inside one window, counted from the absent
\* key, returns currentCount = i, allowed = (i <= K) and
\* remaining = max(0, K - i), for any K >= 0.
C2_Boundary ==
    \A r \in Requests :
        r.last.err = "nil" /\ r.last.clean =>
            /\ r.last.current = r.last.nth
            /\ r.last.allowed = (r.last.nth <= config[r.last.limitType].requests)
            /\ r.last.remaining = Max(0, config[r.last.limitType].requests - r.last.nth)
            /\ r.last.remaining >= 0

\* The call after call K + 1 is denied with remaining = 0
C2_Witness ==
    \E r \in Requests :
        /\ r.last.err = "nil" /\ r.last.clean
        /\ config[r.last.limitType].requests = 1
        /\ r.last.nth = 3
        /\ ~r.last.allowed
        /\ r.last.remaining = 0

\* C3: when checkRateLimit returns an error, the rateLimit middleware calls
\* the next handler exactly once, does not answer 429 and sets none of
\* X-Ratelimit-Limit, X-Ratelimit-Remaining, X-Ratelimit-Reset, Retry-After;
\* the response is the one the next handlers write.
FailedOpen(s) ==
    /\ After(s).status # 429
    /\ After(s).body # "Rate limit exceeded\n"
    /\ \A h \in RateLimitHeaderNames :
          /\ h \in DOMAIN After(s).headers <=> h \in DOMAIN req[s].headers
          /\ HeaderGet(After(s).headers, h) = HeaderGet(req[s].headers, h)
    /\ Len(After(s).trace) > Len(req[s].trace)
    /\ After(s).trace[Len(req[s].trace) + 1] = <<chain[req[s].at].limitType, "error">>
    /\ IF chain[req[s].at + 1].kind = "rateLimit"
       THEN /\ After(s).state = "running"
            /\ After(s).at = req[s].at + 1
            /\ Len(After(s).trace) = Len(req[s].trace) + 1
       ELSE /\ Len(After(s).trace) > Len(req[s].trace) + 1
            /\ After(s).trace[Len(req[s].trace) + 2][1] = chain[req[s].at + 1].kind
            /\ Cardinality(Entries(After(s), chain[req[s].at + 1].kind)) = 1

C3_FailOpen ==
    [][\A s \in Slots :
          Called(s) /\ After(s).last.err \notin {"nil", "not called"} => FailedOpen(s)]_vars

\* A reply that is no list of two values, and the route handler answered
C3_Witness ==
    /\ done.last.err = "ErrInvalidScriptResult"
    /\ done.handlerCalls = 1
    /\ done.status = 501
    /\ DOMAIN done.headers \cap RateLimitHeaderNames = {}

\* C4: on a route that requires bearer authentication the handler is called
\* only if ValidateToken succeeded on the presented bearer token; in every
\* other case JWTAuth answers 401 and the handler is not called.  JWTAuth
\* ends one way or the other, never both.
TokenValid(r) ==
    /\ HasPrefix(r.authorization, "Bearer ")
    /\ ValidateToken(TrimPrefix(r.authorization, "Bearer "), now).err = "nil"

C4_AuthGate ==
    \A r \in Requests :
        r.bearerAuthScopes =>
            /\ r.handlerCalls > 0 => TokenValid(r)
            /\ Entries(r, "JWTAuth") # {} =>
                  /\ Cardinality(Entries(r, "JWTAuth")) = 1
                  /\ r.state = "done"
                  /\ IF TokenValid(r)
                     THEN /\ r.handlerCalls = 1
                          /\ r.status # 401
                          /\ r.validateCalls = 1
                     ELSE /\ r.handlerCalls = 0
                          /\ r.status = 401
                          /\ r.body = "Unauthorized\n"

\* A token signed with another secret is answered 401
C4_Witness ==
    /\ done.bearerAuthScopes
    /\ done.authorization = "Bearer tok.forged"
    /\ done.validateCalls = 1
    /\ done.status = 401
    /\ done.handlerCalls = 0

\* C5: a rateLimit middleware whose check succeeds with allowed = false
\* answers 429 with Retry-After = its own window in seconds and does not call
\* the next handler: no later rateLimit middleware, no JWTAuth and no route
\* handler runs for the request.
C5_Denied ==
    \A r \in Requests :
        \A i \in DOMAIN r.trace :
            r.trace[i][2] = "denied" =>
                /\ i = Len(r.trace)
                /\ r.state = "done"
                /\ r.status = 429
                /\ r.body = "Rate limit exceeded\n"
                /\ HeaderGet(r.headers, "Retry-After") = Itoa(config[r.trace[i][1]].window)
                /\ r.handlerCalls = 0
                /\ r.validateCalls = 0
                /\ r.last.limitType = r.trace[i][1] /\ r.last.err = "nil" /\ ~r.last.allowed

\* The first of three middlewares denies: the other two do not run
C5_Witness ==
    /\ Len(EnabledScopes) = 3
    /\ done.trace = <<<<RateLimitTypeGlobal, "denied">>>>
    /\ done.status = 429
    /\ HeaderGet(done.headers, "Retry-After") = Itoa(config[RateLimitTypeGlobal].window)

\* C6: rateLimit middlewares are installed for the enabled scopes only, in
\* the order global, ip, endpoint, each with its own requests and window; a
\* disabled scope's counter is never touched; when no middleware fails open,
\* a request gets past the rateLimit middlewares, to JWTAuth, if and only if
\* every enabled one allowed it, and the route handler is called only if
\* every enabled one allowed it.
Installed ==
    /\ Len(chain) = Len(EnabledScopes) + 2
    /\ \A i \in 1..Len(EnabledScopes) :
          chain[i] = [kind      |-> "rateLimit",
                      limitType |-> EnabledScopes[i],
                      requests  |-> config[EnabledScopes[i]].requests,
                      window    |-> config[EnabledScopes[i]].window]
    /\ \A i \in (Len(EnabledScopes) + 1)..Len(chain) : chain[i].kind # "rateLimit"

AllAllowed(r) ==
    /\ Len(r.trace) >= Len(EnabledScopes)
    /\ \A i \in 1..Len(EnabledScopes) : r.trace[i] = <<EnabledScopes[i], "allowed">>

InOrder(r) ==
    \A i \in DOMAIN r.trace :
        /\ i <= Len(EnabledScopes) => r.trace[i][1] = EnabledScopes[i]
        /\ r.trace[i][1] \in Scopes => i <= Len(EnabledScopes)

OwnPolicy(r) ==
    r.last.err = "nil" =>
        /\ config[r.last.limitType].enabled
        /\ r.last.allowed = (r.last.current <= config[r.last.limitType].requests)
        /\ HeaderGet(r.headers, "X-Ratelimit-Limit") = Itoa(config[r.last.limitType].requests)
        /\ ~r.last.allowed =>
              HeaderGet(r.headers, "Retry-After") = Itoa(config[r.last.limitType].window)
        /\ r.last.key \in DOMAIN store => store[r.last.key].ttl <= config[r.last.limitType].window

C6_Stages ==
    /\ Installed
    /\ \A k \in (DOMAIN store) \cup (DOMAIN win) : config[ScopeOfKey(k)].enabled
    /\ \A r \in Requests :
          /\ InOrder(r)
          /\ OwnPolicy(r)
          /\ r.state = "done" /\ "error" \notin Outcomes(r) =>
                /\ Entries(r, "JWTAuth") # {} <=> AllAllowed(r)
                /\ r.handlerCalls > 0 => AllAllowed(r)

\* Two middlewares allowed the request and the handler answered; the third
\* scope is disabled and has no counter
C6_Witness ==
    /\ Len(EnabledScopes) = 2
    /\ ~config[RateLimitTypeGlobal].enabled
    /\ "error" \notin Outcomes(done)
    /\ AllAllowed(done)
    /\ done.handlerCalls = 1
    /\ Cardinality(DOMAIN store) = 2

\* C6 as stated: when no middleware fails open, the route handler is reached
\* if and only if every enabled rateLimit middleware allowed the request.
C6_AsStated ==
    \A r \in Requests :
        r.state = "done" /\ "error" \notin Outcomes(r) =>
            (r.handlerCalls > 0 <=> AllAllowed(r))

\* C7: every enabled rateLimit middleware runs before JWTAuth, which runs
\* before the route handler: a request answered 429 has no token validated
\* and no handler called, and JWTAuth sees only requests that every enabled
\* rateLimit middleware allowed or failed open on.
C7_Order ==
    \A r \in Requests :
        /\ \A i \in Entries(r, "JWTAuth") :
              /\ i = Len(EnabledScopes) + 1
              /\ \A j \in 1..Len(EnabledScopes) :
                    /\ r.trace[j][1] = EnabledScopes[j]
                    /\ r.trace[j][2] \in {"allowed", "error"}
        /\ \A i \in Entries(r, "handler") :
              /\ i = Len(EnabledScopes) + 2
              /\ r.trace[i - 1] = <<"JWTAuth", "passed">>
        /\ r.handlerCalls > 0 => Entries(r, "handler") # {}
        /\ r.validateCalls > 0 => Entries(r, "JWTAuth") # {}
        /\ "denied" \in Outcomes(r) =>
              /\ r.status = 429
              /\ r.validateCalls = 0
              /\ r.handlerCalls = 0
              /\ Entries(r, "JWTAuth") = {}
              /\ Entries(r, "handler") = {}

\* Three middlewares, the last of which failed open, then JWTAuth validated
\* the token, then the handler answered
C7_Witness ==
    /\ Len(EnabledScopes) = 3
    /\ done.bearerAuthScopes
    /\ done.validateCalls = 1
    /\ Len(done.trace) = 5
    /\ done.trace[3] = <<RateLimitTypeEndpoint, "error">>
    /\ done.trace[4] = <<"JWTAuth", "passed">>
    /\ done.trace[5] = <<"handler", "called">>

\* C8: the first successful call on a key after the key has expired, with
\* maxRequests >= 1, is allowed, returns currentCount = 1 and
\* remaining = maxRequests - 1 and creates the counter anew with TTL = window,
\* whatever the previous window counted or denied.
Restarted(s) ==
    /\ After(s).last.allowed
    /\ After(s).last.current = 1
    /\ After(s).last.remaining = config[After(s).last.limitType].requests - 1
    /\ After(s).last.resetTime = now + config[After(s).last.limitType].window
    /\ After(s).last.key \in DOMAIN store'
    /\ store'[After(s).last.key] =
          [count |-> 1, ttl |-> config[After(s).last.limitType].window]

C8_Expiry ==
    [][\A s \in Slots :
          /\ Called(s)
          /\ After(s).last.err = "nil"
          /\ After(s).last.after # "none"
          /\ After(s).last.key \notin DOMAIN store
          /\ config[After(s).last.limitType].requests >= 1
          => Restarted(s)]_vars

\* A window that denied a call has expired, and the next call is the first
\* of a new window of MaxWindow seconds
C8_Witness ==
    /\ done.last.err = "nil"
    /\ done.last.after = "denied"
    /\ done.last.allowed
    /\ done.last.current = 1
    /\ config[done.last.limitType].window = MaxWindow
    /\ store[done.last.key] = [count |-> 1, ttl |-> MaxWindow]

\* C9: a request changes no counter of another bucket: under the ip scope
\* none of another client IP, under the endpoint scope none of another
\* method and path of the same client IP (nor of another client IP), so that
\* the count and the decisions of the other bucket stay what they were.
OtherBucket(t, a, b) ==
    CASE t = RateLimitTypeIP -> getClientIP(a) # getClientIP(b)
      [] t = RateLimitTypeEndpoint ->
            \/ getClientIP(a) # getClientIP(b)
            \/ <<a.method, a.path>> # <<b.method, b.path>>
      [] OTHER -> FALSE

Untouched(t, b) ==
    Counter(store', generateRateLimitKey(t, b).key)
        = Counter(store, generateRateLimitKey(t, b).key)

C9_Buckets ==
    [][\A s \in Slots :
          Called(s) =>
             \A client \in Clients, route \in Routes :
                OtherBucket(chain[req[s].at].limitType, req[s], NewRequest(client, route))
                   => Untouched(chain[req[s].at].limitType, NewRequest(client, route))]_vars

\* One client IP has used up its quota, and the first request of another
\* client IP is counted as the first and allowed
C9_Witness ==
    /\ done.last.limitType = RateLimitTypeIP
    /\ done.last.err = "nil"
    /\ done.last.allowed
    /\ done.last.current = 1
    /\ \E k \in DOMAIN store :
          /\ k # done.last.key
          /\ store[k].count > config[RateLimitTypeIP].requests

\* C10: a request whose check succeeded in a rateLimit middleware, allowed
\* or denied, has the three headers of that middleware:
\* X-Ratelimit-Limit = its requests, X-Ratelimit-Remaining = the remaining of
\* the decision, X-Ratelimit-Reset = the reset time of the decision in unix
\* seconds.
C10_Headers ==
    \A r \in Requests :
        r.last.err = "nil" =>
            /\ {"X-Ratelimit-Limit", "X-Ratelimit-Remaining", "X-Ratelimit-Reset"}
                  \subseteq DOMAIN r.headers
            /\ r.headers["X-Ratelimit-Limit"] = Itoa(config[r.last.limitType].requests)
            /\ r.headers["X-Ratelimit-Remaining"] = Itoa(r.last.remaining)
            /\ r.headers["X-Ratelimit-Reset"] = Itoa(r.last.resetTime)
            /\ r.last.remaining
                  = Max(0, config[r.last.limitType].requests - r.last.current)

\* A denied request at second 1 with the three headers: limit 1, remaining
\* 0, reset when the counter expires
C10_Witness ==
    /\ done.status = 429
    /\ now = 1
    /\ HeaderGet(done.headers, "X-Ratelimit-Limit") = "1"
    /\ HeaderGet(done.headers, "X-Ratelimit-Remaining") = "0"
    /\ HeaderGet(done.headers, "X-Ratelimit-Reset") = Itoa(now + store[done.last.key].ttl)

\* What JWTAuth did with request r
GateOutcome(r) == {r.trace[i][2] : i \in Entries(r, "JWTAuth")}

\* C11: on a route that requires bearer authentication, a request whose
\* Authorization header is missing or empty, does not start with "Bearer ",
\* or has nothing after "Bearer ", is answered 401; ValidateToken is not
\* called and the handler is not called.
NoBearerToken(authorization) ==
    \/ authorization = ""
    \/ ~HasPrefix(authorization, "Bearer ")
    \/ authorization = "Bearer "

C11_NoToken ==
    \A r \in Requests :
        r.bearerAuthScopes /\ GateOutcome(r) # {} /\ NoBearerToken(r.authorization) =>
            /\ GateOutcome(r) = {"rejected"}
            /\ r.status = 401
            /\ r.validateCalls = 0
            /\ r.handlerCalls = 0
            /\ Entries(r, "handler") = {}

\* "Bearer " and nothing else: 401 without a call of ValidateToken
C11_Witness ==
    /\ done.bearerAuthScopes
    /\ done.authorization = "Bearer "
    /\ done.status = 401
    /\ done.validateCalls = 0
    /\ done.handlerCalls = 0

\* C12: on a route that requires bearer authentication, when the bearer token
\* validates, the handler is called exactly once with a context in which
\* user_id, user_email and user_role hold the userID, email and role of the
\* token's claims and claims holds the claims of the token: the identity is
\* the one of the presented token.
Presented(r) == TokenTable[TrimPrefix(r.authorization, "Bearer ")]

C12_Identity ==
    \A r \in Requests :
        r.bearerAuthScopes /\ "passed" \in GateOutcome(r) =>
            /\ r.handlerCalls = 1
            /\ Cardinality(Entries(r, "handler")) = 1
            /\ TrimPrefix(r.authorization, "Bearer ") \in DOMAIN TokenTable
            /\ DOMAIN r.ctx = {"user_id", "user_email", "user_role", "claims"}
            /\ r.ctx["user_id"] = Presented(r).userID
            /\ r.ctx["user_email"] = Presented(r).email
            /\ r.ctx["user_role"] = Presented(r).role
            /\ \A f \in DOMAIN r.ctx["claims"] : r.ctx["claims"][f] = Presented(r)[f]
            /\ {"userID", "email", "role"} \subseteq DOMAIN r.ctx["claims"]

\* The token of user123 gives the handler the identity user123
C12_Witness ==
    /\ done.bearerAuthScopes
    /\ done.authorization = "Bearer tok.user123"
    /\ done.handlerCalls = 1
    /\ done.ctx = ("user_id" :> "user123") @@ ("user_email" :> "test@example.com")
                    @@ ("user_role" :> "user") @@ ("claims" :> done.ctx["claims"])

\* C13: on a route without a bearer-authentication requirement JWTAuth calls
\* the handler with the context unchanged, whatever the Authorization
\* header: no 401, no call of ValidateToken, no identity key in the context.
C13_OpenRoute ==
    \A r \in Requests :
        ~r.bearerAuthScopes /\ GateOutcome(r) # {} =>
            /\ GateOutcome(r) = {"passed"}
            /\ r.handlerCalls = 1
            /\ r.status # 401
            /\ r.validateCalls = 0
            /\ r.ctx = NoHeaders

\* A forged token on an open route: the handler answers
C13_Witness ==
    /\ ~done.bearerAuthScopes
    /\ done.authorization = "Bearer tok.forged"
    /\ done.handlerCalls = 1
    /\ done.status = 501
    /\ done.ctx = NoHeaders

\* C14: the response of a rejected request is the same for every cause of
\* the rejection: status 401, the body and the headers JWTAuth sets do not
\* depend on what was wrong with the Authorization header.
GateResponse(r) ==
    <<r.status, r.body,
      [h \in (DOMAIN r.headers) \ RateLimitHeaderNames |-> r.headers[h]]>>

Presenting(r, authorization) ==
    JWTAuth([r EXCEPT !.authorization = authorization, !.bearerAuthScopes = TRUE], now)

C14_UniformRejection ==
    /\ \A r \in Requests :
          "rejected" \in GateOutcome(r) =>
              GateResponse(r) =
                 <<401, "Unauthorized\n",
                   ("Content-Type" :> "text/plain; charset=utf-8")
                      @@ ("X-Content-Type-Options" :> "nosniff")>>
    /\ \A r \in Requests : \A authorization \in AuthorizationHeaders :
          r.state = "running" /\ Presenting(r, authorization).state = "done" =>
              /\ GateResponse(Presenting(r, authorization)) = GateResponse(Presenting(r, ""))
              /\ Presenting(r, authorization).headers = Presenting(r, "").headers

\* An expired token is answered like a missing header
C14_Witness ==
    /\ done.bearerAuthScopes
    /\ done.authorization = "Bearer tok.stale"
    /\ now >= 1
    /\ done.validateCalls = 1
    /\ GateResponse(done) = GateResponse(Unauthorized(IdleRequest))

\* C15: when the deadline of the request's context passes while the redis
\* call of checkRateLimit is outstanding, the call returns an error and the
\* rateLimit middleware fails open; so every request that enters a rateLimit
\* middleware leaves it, to the next handler or with a 429.
LeftStage(s, p) == req[s].state = "idle" \/ req[s].at > p

TimedOut(s) ==
    /\ After(s).last.err = "ErrFailedToExecuteScript"
    /\ After(s).status # 429
    /\ After(s).trace[Len(req[s].trace) + 1] = <<chain[req[s].at].limitType, "error">>
    /\ Len(After(s).trace) > Len(req[s].trace) + 1
    /\ After(s).trace[Len(req[s].trace) + 2][1] = chain[req[s].at + 1].kind

ClientPart(key, request) ==
    IF invoked.limitType = RateLimitTypeIP
    THEN TrimPrefix(key, "rate_limit:ip:")
    ELSE SubSeq(key, Len("rate_limit:endpoint:") + 1,
                Len(key) - Len(":" \o request.method \o ":" \o request.path))

C16_ClientIP ==
    invoked.op = "generateRateLimitKey"
        /\ invoked.limitType \in {RateLimitTypeIP, RateLimitTypeEndpoint} =>
            /\ returned.err = "nil"
            /\ HasPrefix(returned.key, "rate_limit:" \o invoked.limitType \o ":")
            /\ invoked.request.xff # "" =>
                  ClientPart(returned.key, invoked.request) = invoked.request.xff
            /\ invoked.request.xff = "" /\ invoked.request.xri # "" =>
                  ClientPart(returned.key, invoked.request) = invoked.request.xri
            /\ invoked.request.xff = "" /\ invoked.request.xri = "" =>
                  ClientPart(returned.key, invoked.request) = invoked.request.remoteAddr

\* A chain of two addresses, with X-Real-IP set as well, is the client of
\* the endpoint key
C16_Witness ==
    /\ invoked.op = "generateRateLimitKey"
    /\ invoked.limitType = RateLimitTypeEndpoint
    /\ invoked.request.xff = "203.0.113.7, 10.0.0.1"
    /\ invoked.request.xri # ""
    /\ returned.key = "rate_limit:endpoint:203.0.113.7, 10.0.0.1:GET:/status"

\* C17: RefreshAccessToken succeeds on a token string exactly when
\* ValidateToken succeeds on it at that time.  Then it returns an access token
\* with the userID, email and role of the validated claims that expires
\* AccessTokenTTL after the refresh, the returned token can be refreshed in
\* turn, and nothing limits how often; when validation fails it returns an
\* error and no token.
C17_Refresh ==
    invoked.op = "RefreshAccessToken" =>
        /\ (returned.err = "nil") <=>
              (ValidateToken(invoked.tokenString, invoked.at).err = "nil")
        /\ returned.err = "nil" =>
              /\ WellFormed(returned.token)
              /\ Parsed(returned.token).userID =
                    ValidateToken(invoked.tokenString, invoked.at).claims.userID
              /\ Parsed(returned.token).email =
                    ValidateToken(invoked.tokenString, invoked.at).claims.email
              /\ Parsed(returned.token).role =
                    ValidateToken(invoked.tokenString, invoked.at).claims.role
              /\ Parsed(returned.token).exp = invoked.at + AccessTokenTTL
              /\ AccessTokenTTL > 0 =>
                    ValidateToken(returned.token, invoked.at).err = "nil"
        /\ returned.err # "nil" => returned.token = ""

\* The third refresh in a row, each of the token the refresh before returned,
\* after the first token of the row has expired
C17_Witness ==
    /\ invoked.op = "RefreshAccessToken"
    /\ invoked.nth = MaxRefreshes
    /\ invoked.at = MaxTime
    /\ invoked.exp = MaxTime - 1 + AccessTokenTTL
    /\ returned.err = "nil"
    /\ Parsed(returned.token).userID = "user456"
    /\ Parsed(returned.token).role = "admin"

\* C18: a token of GenerateAccessToken or GenerateRefreshToken that is
\* validated before it expires gives the claims of the call: the userID, the
\* email and the role as JSON carries them (unchanged when they are valid
\* UTF-8), the userID as subject and the configured issuer.
RoundTrip ==
    /\ invoked.op \in {"GenerateAccessToken", "GenerateRefreshToken"}
    /\ invoked'.op = "ValidateToken"
    /\ invoked'.tokenString = returned.token
    /\ invoked'.at < invoked'.exp

C18_RoundTrip ==
    [][RoundTrip =>
          /\ returned'.err = "nil"
          /\ returned'.claims.userID = ToValidUTF8(invoked.userID)
          /\ returned'.claims.email = ToValidUTF8(invoked.email)
          /\ returned'.claims.role = ToValidUTF8(invoked.role)
          /\ returned'.claims.sub = returned'.claims.userID
          /\ returned'.claims.iss = Issuer
          /\ returned'.claims.exp =
                invoked.at + (IF invoked.op = "GenerateRefreshToken"
                              THEN RefreshTokenTTL ELSE AccessTokenTTL)]_vars

\* A refresh token of user123 is validated a second after it was issued
C18_Witness ==
    /\ invoked.op = "ValidateToken"
    /\ invoked.at = 1
    /\ invoked.exp = RefreshTokenTTL
    /\ returned.err = "nil"
    /\ returned.claims.userID = "user123"
    /\ returned.claims.sub = "user123"
    /\ returned.claims.iss = "boilerplate"

\* C18 as stated: exactly the userID, email and role of the call, whatever
\* they are
C18_AsStated ==
    [][RoundTrip =>
          /\ returned'.err = "nil"
          /\ returned'.claims.userID = invoked.userID
          /\ returned'.claims.email = invoked.email
          /\ returned'.claims.role = invoked.role
          /\ returned'.claims.sub = invoked.userID
          /\ returned'.claims.iss = Issuer]_vars

\* C19: ValidateToken returns no claims with an error.  A token signed with
\* the service's secret whose expiry has passed gives ErrExpiredToken; a
\* string that is not a token, and a token signed with another secret, give
\* ErrInvalidToken, expired or not.
C19_Errors ==
    invoked.op = "ValidateToken" =>
        /\ returned.err # "nil" => returned.claims = NoClaims
        /\ returned.err \in {"nil", "ErrExpiredToken", "ErrInvalidToken"}
        /\ invoked.form = "jwt" /\ invoked.signedWith = SecretKey
              /\ invoked.exp <= invoked.at => returned.err = "ErrExpiredToken"
        /\ invoked.form = "malformed" \/ invoked.signedWith # SecretKey =>
              returned.err = "ErrInvalidToken"

\* An expired token of a service with another secret is invalid, not expired
C19_Witness ==
    /\ invoked.op = "ValidateToken"
    /\ invoked.form = "jwt"
    /\ invoked.signedWith = "different-secret-key"
    /\ invoked.exp <= invoked.at
    /\ WellFormed(invoked.tokenString)
    /\ returned.err = "ErrInvalidToken"

\* C20: Config.SetDefault sets the fields that are nil and leaves every field
\* that is set as it is, so that a second SetDefault changes nothing; on the
\* empty configuration the policies are global: disabled, 1000 requests, 60 s;
\* ip: enabled, 100 requests, 60 s; endpoint: disabled, 50 requests, 60 s, and
\* the server installs the rateLimit middleware of the ip scope and no other.
IsSet(c, scope, field) ==
    /\ c.RateLimit # Nil
    /\ Deref(c.RateLimit)[scope] # Nil
    /\ Deref(Deref(c.RateLimit)[scope])[field] # Nil

C20_Defaults ==
    invoked.op = "SetDefault" =>
        /\ SetDefault(returned.config) = returned.config
        /\ invoked.config.ReadTimeout # Nil =>
              returned.config.ReadTimeout = invoked.config.ReadTimeout
        /\ returned.config.ReadTimeout # Nil
        /\ returned.config.RateLimit # Nil
        /\ \A scope \in {"Global", "IP", "Endpoint"}, field \in {"Enabled", "Requests", "Window"} :
              /\ IsSet(returned.config, scope, field)
              /\ IsSet(invoked.config, scope, field) =>
                    Deref(Deref(returned.config.RateLimit)[scope])[field]
                        = Deref(Deref(invoked.config.RateLimit)[scope])[field]
        /\ invoked.config = EmptyConfig =>
              /\ Policy(returned.config) =
                    (RateLimitTypeGlobal :> [enabled |-> FALSE, requests |-> 1000, window |-> 60])
                    @@ (RateLimitTypeIP :> [enabled |-> TRUE, requests |-> 100, window |-> 60])
                    @@ (RateLimitTypeEndpoint :> [enabled |-> FALSE, requests |-> 50, window |-> 60])
              /\ setupRateLimitMiddlewares(Policy(returned.config)) =
                    <<[kind |-> "rateLimit", limitType |-> RateLimitTypeIP,
                       requests |-> 100, window |-> 60]>>

\* The ip scope is switched off and its window set, its limit is not: the
\* limit gets its default and the rest stays
C20_Witness ==
    /\ invoked.op = "SetDefault"
    /\ invoked.config.RateLimit # Nil
    /\ Deref(invoked.config.RateLimit).IP =
          Ref([Enabled |-> Ref(FALSE), Requests |-> Nil, Window |-> Ref(MaxWindow)])
    /\ Deref(invoked.config.RateLimit).Global = Nil
    /\ Deref(returned.config.RateLimit).IP =
          Ref([Enabled |-> Ref(FALSE), Requests |-> Ref(100), Window |-> Ref(MaxWindow)])
    /\ Deref(returned.config.RateLimit).Global =
          Ref([Enabled |-> Ref(FALSE), Requests |-> Ref(1000), Window |-> Ref(60)])

\* C21: on one key inside one window the stored count is the number of runs
\* of the script, whatever the interleaving of the calls and whether they
\* were allowed or denied; no count is returned twice, and when every call
\* of the window came back the m calls returned the counts 1..m.
C21_Serialized ==
    \A k \in DOMAIN store :
        /\ store[k].count = win[k].ran
        /\ ~win[k].twice
        /\ win[k].seen \subseteq 1..win[k].ran
        /\ win[k].clean =>
              /\ win[k].calls = win[k].ran
              /\ win[k].seen = 1..win[k].calls

\* While an earlier request still waits in the middleware, two later ones
\* were counted 1 and 2 and the second was denied: the counter is past the
\* limit
C21_Witness ==
    \E k \in DOMAIN store :
        /\ win[k].clean
        /\ win[k].seen = {1, 2}
        /\ store[k].count = 2
        /\ store[k].count > config[ScopeOfKey(k)].requests
        /\ req[1].state = "running"
        /\ done.status = 429
        /\ done.last.current = 2

\* The counter of key k after a step is well formed: at least 1, with a TTL
\* of 1..window seconds of its scope; if it was there before, its count did
\* not go down; if it is new, it is 1 with the full window as TTL
WellKept(before, after, k) ==
    /\ after[k].count >= 1
    /\ after[k].ttl \in 1..config[ScopeOfKey(k)].window
    /\ k \in DOMAIN before => after[k].count >= before[k].count
    /\ k \notin DOMAIN before =>
          after[k] = [count |-> 1, ttl |-> config[ScopeOfKey(k)].window]

\* C22: with the script as the only writer, every counter that exists has a
\* count of at least 1 and a TTL of at most its window (none is without
\* TTL), its count never goes down while it exists, and it comes into being
\* only as 1 together with its TTL.
C22_Counters == [][\A k \in DOMAIN store' : WellKept(store, store', k)]_vars

\* A counter of a two-second window, one second old, counted twice
C22_Witness ==
    \E k \in DOMAIN store :
        /\ config[ScopeOfKey(k)].window = 2
        /\ store[k] = [count |-> 2, ttl |-> 1]
        /\ win[k].ran = 2

\* The second at which the window of key k ends
WindowEnd(w, k) == w[k].since + config[ScopeOfKey(k)].window

\* Call s was denied under a limit of at least 1
DeniedCall(s) ==
    /\ Called(s)
    /\ After(s).last.err = "nil"
    /\ ~After(s).last.allowed
    /\ config[After(s).last.limitType].requests >= 1

\* C23: the window is fixed by its first request: a counter expires window
\* seconds after the call that created it, and no later call, allowed or
\* denied, changes its TTL; so with a limit of at least 1 a call is denied
\* only less than window seconds after the first request of its window, and
\* from then on the client is allowed again.
C23_FixedWindow ==
    [][/\ \A k \in DOMAIN store \cap DOMAIN store' :
             store'[k].ttl = store[k].ttl - (now' - now)
       /\ \A k \in DOMAIN store' : now' + store'[k].ttl = WindowEnd(win', k)
       /\ \A s \in Slots :
             DeniedCall(s) =>
                /\ After(s).last.key \in DOMAIN store
                /\ now < WindowEnd(win, After(s).last.key)]_vars

\* A call is denied in the second second of a two-second window and the
\* counter still expires two seconds after the window's first request
C23_Witness ==
    /\ done.last.err = "nil"
    /\ ~done.last.allowed
    /\ config[done.last.limitType].requests >= 1
    /\ config[done.last.limitType].window = 2
    /\ now = 1
    /\ win[done.last.key].since = 0
    /\ store[done.last.key].ttl = 1

\* Requests a and b are the same for scope t: always under the global
\* scope, with the same client IP under the ip scope, with the same client
\* IP, method and path under the endpoint scope
SameBucket(t, a, b) ==
    CASE t = RateLimitTypeGlobal -> TRUE
      [] t = RateLimitTypeIP -> getClientIP(a) = getClientIP(b)
      [] t = RateLimitTypeEndpoint ->
            /\ getClientIP(a) = getClientIP(b)
            /\ a.method = b.method
            /\ a.path = b.path

\* Every request of the model whose key under some scope is `key` is, under
\* that scope t, in the bucket of request a, as far as `covered` goes
OnlyKeyOf(key, t, a, covered(_)) ==
    \A u \in Scopes, client \in Addresses, route \in Endpoints :
        generateRateLimitKey(u, NewRequest(client, route)).key = key
            /\ covered(NewRequest(client, route)) =>
                /\ u = t
                /\ SameBucket(t, a, NewRequest(client, route))

AnyClient(request) == TRUE

\* The client IP holds no '/'
NoSlash(request) == IndexFrom(getClientIP(request), "/", 1) = 0

\* C24 as stated: a key belongs to one scope, one client IP and, under the
\* endpoint scope, one method and path, whatever the client-IP string
C24_AsStated ==
    invoked.op = "generateRateLimitKey" /\ returned.err = "nil" =>
        OnlyKeyOf(returned.key, invoked.limitType, invoked.request, AnyClient)

\* C24: keys of different scopes never coincide, two requests have the same
\* ip key only with the same client IP, and the same endpoint key only with
\* the same client IP, method and path, for the client-IP strings that hold
\* no '/' (addresses with ':' included).
C24_DistinctKeys ==
    invoked.op = "generateRateLimitKey" /\ returned.err = "nil"
        /\ NoSlash(invoked.request) =>
            OnlyKeyOf(returned.key, invoked.limitType, invoked.request, NoSlash)

\* The endpoint key of a client whose address holds ':'
C24_Witness ==
    /\ invoked.op = "generateRateLimitKey"
    /\ invoked.limitType = RateLimitTypeEndpoint
    /\ getClientIP(invoked.request) = "2001:db8::1"
    /\ invoked.request.method = "POST"
    /\ returned.key = "rate_limit:endpoint:2001:db8::1:POST:/status"

\* C25: for a scope that is none of the three, generateRateLimitKey returns
\* ErrUnknownRateLimitType and the middleware hands the request, as it came,
\* to the next handler once: redis is not called, no counter changes and no
\* rate-limit header is set.
C25_UnknownScope ==
    [][invoked = NoCall /\ invoked'.op = "rateLimit" /\ invoked'.limitType \notin Scopes =>
        /\ returned'.key = [err |-> "ErrUnknownRateLimitType", key |-> ""]
        /\ returned'.call.err = "not called"
        /\ returned'.r = ServeNext(invoked'.request)
        /\ returned'.r.at = invoked'.request.at + 1
        /\ \A h \in RateLimitHeaderNames : HeaderGet(returned'.r.headers, h) = ""
        /\ store' = store]_vars

\* The scope "user" is asked for while counters of known scopes exist
C25_Witness ==
    /\ invoked.op = "rateLimit"
    /\ invoked.limitType = "user"
    /\ returned.r.state = "running"
    /\ returned.key.err = "ErrUnknownRateLimitType"
    /\ Cardinality(DOMAIN store) >= 2

\* The keys of the rateLimit middlewares that reached redis for request r
KeysOf(r) ==
    {generateRateLimitKey(r.trace[i][1], r).key :
        i \in {j \in DOMAIN r.trace :
                  r.trace[j][1] \in Scopes /\ r.trace[j][2] \in {"allowed", "denied"}}}

\* The first n entries of the trace of r are of the first n enabled
\* rateLimit middlewares, and what was counted for r are their counters
StagesRun(r, n) ==
    /\ n <= Len(EnabledScopes)
    /\ \A i \in 1..n : r.trace[i][1] = EnabledScopes[i]
    /\ r.counted = KeysOf(r)

\* C26: an increment is never undone.  Every rateLimit middleware that
\* reaches redis adds one to its counter and no step but the passing of time
\* lowers or removes a counter.  A request answered 429 by the k-th enabled
\* middleware has been counted by the first k enabled middlewares and by no
\* later one; a request that passed the middlewares and was answered 401 by
\* JWTAuth or 404 by the router has been counted by every enabled middleware.
C26_NoRefund ==
    [][/\ now' = now =>
             \A k \in DOMAIN store :
                 k \in DOMAIN store' /\ store'[k].count >= store[k].count
       /\ \A s \in Slots :
             Called(s) /\ After(s).last.err = "nil" =>
                Counter(store', After(s).last.key).count =
                    Counter(store, After(s).last.key).count + 1
       /\ done'.status = 429 =>
             /\ StagesRun(done', Len(done'.trace))
             /\ done'.trace[Len(done'.trace)][2] = "denied"
       /\ done'.status \in {401, 404} =>
             /\ StagesRun(done', Len(EnabledScopes))
             /\ Len(done'.trace) = Len(EnabledScopes) + 1
             /\ done'.handlerCalls = 0]_vars

\* With three middlewares enabled the second denies the request: the global
\* and the ip counter went up, the endpoint counter was not touched
C26_Witness ==
    /\ Len(EnabledScopes) = 3
    /\ done.status = 429
    /\ Len(done.trace) = 2
    /\ done.counted = {"rate_limit:global", generateRateLimitKey(RateLimitTypeIP, done).key}
    /\ Counter(store, "rate_limit:global").count = 2
    /\ generateRateLimitKey(RateLimitTypeEndpoint, done).key \notin DOMAIN store

\* JWTAuth lets a request with this bearer token through at the clock
GateAccepts(tokenString, clock) ==
    Authenticated(NewRequest(PlainClient, SecuredRoute),
                  "Bearer " \o tokenString, clock).state = "running"

\* C27: a token carries no kind.  JWTAuth and RefreshAccessToken accept the
\* same token strings, those ValidateToken accepts, whether the token was
\* issued as access or as refresh token: a refresh token passes as bearer
\* token and an unexpired access token is refreshed.
C27_NoTokenKind ==
    /\ invoked.op = "JWTAuth" =>
          /\ (returned.state = "running")
                <=> (RefreshAccessToken(invoked.tokenString, invoked.at).err = "nil")
          /\ (returned.state = "running")
                <=> (ValidateToken(invoked.tokenString, invoked.at).err = "nil")
    /\ invoked.op = "RefreshAccessToken" =>
          /\ (returned.err = "nil") <=> GateAccepts(invoked.tokenString, invoked.at)
          /\ (returned.err = "nil")
                <=> (ValidateToken(invoked.tokenString, invoked.at).err = "nil")

\* A token just issued by GenerateRefreshToken passes JWTAuth as bearer token
C27_Witness ==
    /\ invoked.op = "JWTAuth"
    /\ invoked.signedWith = SecretKey
    /\ WellFormed(invoked.tokenString)
    /\ Parsed(invoked.tokenString).iat = invoked.at
    /\ Parsed(invoked.tokenString).exp = invoked.at + RefreshTokenTTL
    /\ returned.state = "running"
    /\ returned.ctx["user_id"] = "user123"

\* What ValidateToken returns, apart from the issuer and audience it read
Result(v) ==
    IF v.err # "nil" THEN v
    ELSE [err |-> "nil", claims |-> Reissued(v.claims, "", "")]

\* The token of the same claims under issuer iss and audience aud, signed
\* with the service's key
Variant(tokenString, iss, aud) ==
    SignedString("HS256", Reissued(ClaimsOf(Parsed(tokenString)), iss, aud), SecretKey)

\* C30: what ValidateToken returns does not depend on the issuer and the
\* audience of the token: a token signed with the service's key gets the
\* result of the token that differs from it in issuer and audience only,
\* and one whose issuer or audience is not the configured one is accepted
\* while it is valid (from nbf up to exp).
C30_IssuerIgnored ==
    invoked.op = "ValidateToken" /\ invoked.form = "jwt" /\ invoked.signedWith = SecretKey
        /\ WellFormed(invoked.tokenString) =>
            /\ \A iss \in OtherIssuers \cup {Issuer}, aud \in OtherAudiences \cup {Audience} :
                  Result(ValidateToken(Variant(invoked.tokenString, iss, aud), invoked.at))
                      = Result(returned)
            /\ Parsed(invoked.tokenString).nbf <= invoked.at /\ invoked.at < invoked.exp =>
                  returned.err = "nil"

\* A token of another issuer and audience is accepted
C30_Witness ==
    /\ invoked.op = "ValidateToken"
    /\ returned.err = "nil"
    /\ returned.claims.iss = "another-service"
    /\ returned.claims.aud = "another_audience"
    /\ returned.claims.userID = "user123"

\* The clients that send neither X-Forwarded-For nor X-Real-IP
Direct == {client \in StageClients : client.xff = "" /\ client.xri = ""}

\* What follows the client IP in a key of scope t
EndpointPart(t, request) ==
    IF t = RateLimitTypeEndpoint THEN ":" \o request.method \o ":" \o request.path ELSE ""

\* The key of scope t of a request of `client` for the path of `request`
KeyFrom(t, client, request) ==
    generateRateLimitKey(t, RealIP([request EXCEPT !.xff = client.xff, !.xri = client.xri,
                                                   !.remoteAddr = client.remoteAddr])).key

Quota(r) ==
    <<HeaderGet(r.headers, "X-Ratelimit-Limit"),
      HeaderGet(r.headers, "X-Ratelimit-Remaining"),
      HeaderGet(r.headers, "X-Ratelimit-Reset")>>

\* The rateLimit middlewares whose check succeeded for r, by trace position
Evaluated(r) ==
    {i \in DOMAIN r.trace :
        r.trace[i][1] \in Scopes /\ r.trace[i][2] \in {"allowed", "denied"}}

\* The limit of the last middleware whose check succeeded for r, as the
\* header has it; "" when there is none
LastLimit(r) ==
    IF Evaluated(r) = {} THEN ""
    ELSE Itoa(config[r.trace[CHOOSE i \in Evaluated(r) :
                                \A j \in Evaluated(r) : j <= i][1]].requests)

\* C29: every rateLimit middleware whose check succeeds overwrites the three
\* headers with its own values, and one that fails open leaves them as they
\* were: the response carries the values of the last middleware whose check
\* succeeded (on a 429 the denying one), whether or not an earlier one was
\* more restrictive.
C29_LastStage ==
    [][/\ \A s \in Slots :
             Called(s) =>
                IF After(s).last.err = "nil" /\ After(s).last.keyErr = "nil"
                THEN Quota(After(s)) =
                        <<Itoa(config[After(s).last.limitType].requests),
                          Itoa(After(s).last.remaining), Itoa(After(s).last.resetTime)>>
                ELSE Quota(After(s)) = Quota(req[s])
       /\ done'.state = "done" =>
             HeaderGet(done'.headers, "X-Ratelimit-Limit") = LastLimit(done')]_vars

\* The global middleware left the request nothing (limit 1, remaining 0),
\* the endpoint middleware after it allows two per window: the response
\* says limit 2, remaining 1
C29_Witness ==
    /\ done.state = "done"
    /\ Len(done.trace) >= 2
    /\ done.trace[1] = <<RateLimitTypeGlobal, "allowed">>
    /\ config[RateLimitTypeGlobal].requests = 1
    /\ Counter(store, "rate_limit:global").count = 1
    /\ done.last.limitType = RateLimitTypeEndpoint
    /\ Quota(done) = <<"2", "1", Itoa(done.last.resetTime)>>

====
